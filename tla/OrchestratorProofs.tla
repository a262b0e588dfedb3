------------------------- MODULE OrchestratorProofs --------------------------
(***************************************************************************)
(* The waves of the orchestrator are safe for every set of subtasks, every *)
(* plan, every limit and any number of runs of one agent; and the checks   *)
(* of a plan, DAG.validate() and DAG.get_execution_order(), are right on   *)
(* every finite graph.                                                     *)
(*                                                                         *)
(* The loops of the checks are recursive functions.  What they compute is  *)
(* shown by induction on the number of iterations, as the least            *)
(* counterexample (LeastNat): a loop whose step stays within a set X is a  *)
(* function from the iterations to X (Iteration), so X is its invariant.   *)
(***************************************************************************)
EXTENDS OrchestratorRun, FiniteSetTheorems, SequenceTheorems, WellFoundedInduction, TLAPS

-----------------------------------------------------------------------------
(***************************************************************************)
(* Induction and loops.                                                    *)
(***************************************************************************)

\* Induction over the naturals, as the least counterexample.
LEMMA LeastNat ==
  ASSUME NEW T, T \subseteq Nat, T # {}
  PROVE  \E n \in T : \A k \in T : n <= k
<1> DEFINE R == OpToRel(<, Nat)
<1>1. IsWellFoundedOn(R, Nat)
  BY NatLessThanWellFounded
<1>2. \A a, b \in Nat : <<a, b>> \in R <=> a < b
  BY DEF OpToRel
<1> HIDE DEF R
<1>3. PICK n \in T : \A k \in T : ~(<<k, n>> \in R)
  BY <1>1, WFMin, Zenon
<1>4. \A k \in T : ~(k < n)
  BY <1>2, <1>3
<1>5. \A k \in T : k \in Nat /\ n \in Nat
  OBVIOUS
<1>6. QED
  BY <1>4, <1>5

\* The first n iterations of a loop that starts in x and goes on with F.
Iterated(x, F, n, g) == g[0] = x /\ \A i \in 1 .. n : g[i] = F[g[i - 1]]

\* A loop has a state after every number of iterations.
LEMMA Iteration ==
  ASSUME NEW X, NEW x \in X, NEW F \in [X -> X]
  PROVE  \E f \in [Nat -> X] : f[0] = x /\ \A i \in Nat \ {0} : f[i] = F[f[i - 1]]
<1>1. \A n \in Nat : \E g \in [0 .. n -> X] : Iterated(x, F, n, g)
  <2> DEFINE T == {n \in Nat : ~ \E g \in [0 .. n -> X] : Iterated(x, F, n, g)}
  <2> SUFFICES ASSUME T # {} PROVE FALSE
    OBVIOUS
  <2>1. PICK n \in T : \A k \in T : n <= k
    BY LeastNat
  <2>2. n \in Nat /\ ~ \E g \in [0 .. n -> X] : Iterated(x, F, n, g)
    OBVIOUS
  <2>3. CASE n = 0
    <3> DEFINE g == [i \in 0 .. n |-> x]
    <3>1. g \in [0 .. n -> X] /\ Iterated(x, F, n, g)
      BY <2>3 DEF Iterated
    <3>2. QED
      BY <2>2, <3>1
  <2>4. CASE n # 0
    <3>1. n - 1 \in Nat /\ n - 1 \notin T
      BY <2>1, <2>2, <2>4
    <3>2. PICK h \in [0 .. n - 1 -> X] : Iterated(x, F, n - 1, h)
      BY <3>1
    <3> DEFINE g == [i \in 0 .. n |-> IF i = n THEN F[h[n - 1]] ELSE h[i]]
    <3>3. /\ h[n - 1] \in X /\ F[h[n - 1]] \in X
      BY <2>2, <3>1
    <3>4. g \in [0 .. n -> X]
      BY <2>2, <3>3
    <3>5. \A i \in 0 .. n - 1 : g[i] = h[i]
      BY <2>2
    <3>6. g[n] = F[h[n - 1]]
      BY <2>2
    <3> HIDE DEF g
    <3>7. g[0] = x
      BY <2>2, <3>1, <3>2, <3>5 DEF Iterated
    <3>8. \A i \in 1 .. n : g[i] = F[g[i - 1]]
      <4> TAKE i \in 1 .. n
      <4>1. CASE i = n
        BY <2>2, <3>1, <3>5, <3>6, <4>1
      <4>2. CASE i # n
        <5>1. i \in 1 .. n - 1 /\ i \in 0 .. n - 1 /\ i - 1 \in 0 .. n - 1
          BY <2>2, <4>2
        <5>2. QED
          BY <3>2, <3>5, <5>1 DEF Iterated
      <4>3. QED
        BY <4>1, <4>2
    <3>9. QED
      BY <2>2, <3>4, <3>7, <3>8 DEF Iterated
  <2>5. QED
    BY <2>3, <2>4
<1>2. ASSUME NEW n \in Nat, NEW m \in Nat, n <= m, NEW g, NEW h, Iterated(x, F, n, g), Iterated(x, F, m, h)
      PROVE  g[n] = h[n]
  <2> DEFINE T == {i \in 0 .. n : g[i] # h[i]}
  <2>1. T = {}
    <3> SUFFICES ASSUME T # {} PROVE FALSE
      OBVIOUS
    <3> T \subseteq Nat
      OBVIOUS
    <3>1. PICK i \in T : \A k \in T : i <= k
      BY LeastNat
    <3>2. i \in 0 .. n /\ g[i] # h[i]
      OBVIOUS
    <3>3. i # 0
      BY <1>2, <3>2 DEF Iterated
    <3>4. i - 1 \in 0 .. n /\ ~(i <= i - 1)
      BY <3>2, <3>3
    <3>5. g[i - 1] = h[i - 1]
      BY <3>1, <3>4
    <3>6. i \in 1 .. n /\ i \in 1 .. m
      BY <1>2, <3>2, <3>3
    <3>7. QED
      BY <1>2, <3>2, <3>5, <3>6 DEF Iterated
  <2>2. n \in 0 .. n
    OBVIOUS
  <2>3. QED
    BY <2>1, <2>2
<1> DEFINE c(n) == CHOOSE g \in [0 .. n -> X] : Iterated(x, F, n, g)
           f == [n \in Nat |-> c(n)[n]]
<1>3. \A n \in Nat : c(n) \in [0 .. n -> X] /\ Iterated(x, F, n, c(n))
  BY <1>1
<1>4. \A n \in Nat : f[n] = c(n)[n]
  OBVIOUS
<1> HIDE DEF c
<1>5. f \in [Nat -> X]
  <2>1. \A n \in Nat : n \in 0 .. n
    OBVIOUS
  <2>2. \A n \in Nat : c(n)[n] \in X
    BY <1>3, <2>1
  <2>3. QED
    BY <2>2
<1> HIDE DEF f
<1>6. f[0] = x
  BY <1>3, <1>4 DEF Iterated
<1>7. ASSUME NEW i \in Nat \ {0} PROVE f[i] = F[f[i - 1]]
  <2>1. i - 1 \in Nat /\ i - 1 <= i /\ i \in 1 .. i /\ i \in Nat
    OBVIOUS
  <2>2. c(i)[i] = F[c(i)[i - 1]]
    BY <1>3, <2>1 DEF Iterated
  <2>3. Iterated(x, F, i - 1, c(i - 1)) /\ Iterated(x, F, i, c(i))
    BY <1>3, <2>1
  <2>4. c(i - 1)[i - 1] = c(i)[i - 1]
    BY <1>2, <2>1, <2>3
  <2>5. QED
    BY <1>4, <2>1, <2>2, <2>4
<1>8. QED
  BY <1>5, <1>6, <1>7

-----------------------------------------------------------------------------
(***************************************************************************)
(* The depth-first search.                                                 *)
(***************************************************************************)

Colours == {"white", "gray", "black"}

\* The stack is a path of distinct gray steps, each a dependency of the next.
OnPath(D, S, color, stack) ==
    /\ \A i, j \in 1 .. Len(stack) : stack[i] = stack[j] => i = j
    /\ \A s \in S : color[s] = "gray" <=> \E i \in 1 .. Len(stack) : stack[i] = s
    /\ \A i \in 1 .. Len(stack) - 1 : stack[i] \in D[stack[i + 1]]

\* The iterators hold dependents, and all of them until the step is entered.
ToVisit(D, S, color, rest) ==
    \A s \in S : /\ \A n \in rest[s] : s \in D[n]
                 /\ color[s] = "white" => \A n \in S : s \in D[n] => n \in rest[s]

\* A dependent that was looked at is finished, or above on the stack.
Looked(D, S, color, stack, rest) ==
    \A i \in 1 .. Len(stack) : \A n \in S :
        stack[i] \in D[n] /\ n \notin rest[stack[i]] =>
            color[n] = "black" \/ (i < Len(stack) /\ n = stack[i + 1])

\* The black steps are closed under dependents and have no cycle.
Finished(D, S, color) ==
    /\ \A s, n \in S : color[s] = "black" /\ s \in D[n] => color[n] = "black"
    /\ \A X \in SUBSET {s \in S : color[s] = "black"} : X # {} => \E x \in X : D[x] \cap X = {}

Searching(D, S, color, stack, rest) ==
    /\ color \in [S -> Colours] /\ stack \in Seq(S) /\ rest \in [S -> SUBSET S]
    /\ OnPath(D, S, color, stack) /\ ToVisit(D, S, color, rest)
    /\ Looked(D, S, color, stack, rest) /\ Finished(D, S, color)

\* A white step is entered: a root, or the next dependent of the step on top.
LEMMA EnterWhite ==
  ASSUME NEW D, NEW S, NEW color, NEW stack, NEW rest, Searching(D, S, color, stack, rest),
         NEW v \in S, color[v] = "white", NEW rest2 \in [S -> SUBSET S],
         \/ stack = <<>> /\ rest2 = rest
         \/ /\ stack # <<>> /\ v \in rest[stack[Len(stack)]]
            /\ rest2 = [rest EXCEPT ![stack[Len(stack)]] = @ \ {v}]
  PROVE  Searching(D, S, [color EXCEPT ![v] = "gray"], Append(stack, v), rest2)
<1> DEFINE color2 == [color EXCEPT ![v] = "gray"]
           stack2 == Append(stack, v)
           L == Len(stack)
<1>1. /\ color \in [S -> Colours] /\ stack \in Seq(S) /\ rest \in [S -> SUBSET S] /\ L \in Nat
      /\ OnPath(D, S, color, stack) /\ ToVisit(D, S, color, rest)
      /\ Looked(D, S, color, stack, rest) /\ Finished(D, S, color)
  BY DEF Searching
<1>2. /\ color2 \in [S -> Colours] /\ color2[v] = "gray"
      /\ \A s \in S \ {v} : color2[s] = color[s]
      /\ \A s \in S : color2[s] = "black" <=> color[s] = "black"
  BY <1>1 DEF Colours
<1>3. /\ stack2 \in Seq(S) /\ Len(stack2) = L + 1 /\ stack2[L + 1] = v
      /\ \A i \in 1 .. L : stack2[i] = stack[i] /\ stack[i] \in S
  BY <1>1
<1>4. \A i \in 1 .. L : stack[i] # v
  BY <1>1, <1>3 DEF OnPath
<1>5. stack # <<>> => L \in 1 .. L /\ L - 1 \in Nat
  BY <1>1
<1>6. /\ \A s \in S : rest2[s] \subseteq rest[s]
      /\ \A s \in S : rest2[s] = rest[s] \/ (stack # <<>> /\ s = stack[L] /\ rest2[s] = rest[s] \ {v})
  BY <1>1, <1>3, <1>5
<1> HIDE DEF color2, stack2, L
<1>7. OnPath(D, S, color2, stack2)
  <2>1. \A i, j \in 1 .. L + 1 : stack2[i] = stack2[j] => i = j
    <3> TAKE i, j \in 1 .. L + 1
    <3>1. CASE i \in 1 .. L /\ j \in 1 .. L
      BY <1>1, <1>3, <3>1 DEF OnPath, L
    <3>2. CASE i = L + 1 \/ j = L + 1
      BY <1>1, <1>3, <1>4, <3>2
    <3>3. QED
      BY <1>1, <3>1, <3>2
  <2>2. \A s \in S : color2[s] = "gray" <=> \E i \in 1 .. L + 1 : stack2[i] = s
    <3> TAKE s \in S
    <3>1. CASE s = v
      BY <1>1, <1>2, <1>3, <3>1
    <3>2. CASE s # v
      <4>1. color2[s] = "gray" <=> \E i \in 1 .. L : stack[i] = s
        BY <1>1, <1>2, <3>2 DEF OnPath, L
      <4>2. (\E i \in 1 .. L : stack[i] = s) <=> \E i \in 1 .. L + 1 : stack2[i] = s
        BY <1>1, <1>3, <3>2
      <4>3. QED
        BY <4>1, <4>2
    <3>3. QED
      BY <3>1, <3>2
  <2>3. \A i \in 1 .. L : stack2[i] \in D[stack2[i + 1]]
    <3> TAKE i \in 1 .. L
    <3>1. CASE i = L
      <4>1. stack # <<>>
        BY <1>1 DEF L
      <4>2. v \in rest[stack[L]] /\ stack[L] \in S
        BY <1>3, <1>5, <4>1 DEF L
      <4>3. stack[L] \in D[v]
        BY <1>1, <4>2 DEF ToVisit
      <4>4. QED
        BY <1>3, <1>5, <3>1, <4>1, <4>3
    <3>2. CASE i # L
      <4>1. i \in 1 .. L - 1 /\ i + 1 \in 1 .. L
        BY <1>1, <3>2
      <4>2. QED
        BY <1>1, <1>3, <4>1 DEF OnPath, L
    <3>3. QED
      BY <3>1, <3>2
  <2>4. Len(stack2) = L + 1 /\ Len(stack2) - 1 = L
    BY <1>1, <1>3
  <2>5. QED
    BY <2>1, <2>2, <2>3, <2>4 DEF OnPath
<1>8. ToVisit(D, S, color2, rest2)
  <2> SUFFICES ASSUME NEW s \in S
               PROVE  /\ \A n \in rest2[s] : s \in D[n]
                      /\ color2[s] = "white" => \A n \in S : s \in D[n] => n \in rest2[s]
    BY DEF ToVisit
  <2>1. \A n \in rest2[s] : s \in D[n]
    BY <1>1, <1>6 DEF ToVisit
  <2>2. ASSUME color2[s] = "white" PROVE \A n \in S : s \in D[n] => n \in rest2[s]
    <3>1. color[s] = "white" /\ s # v
      BY <1>2, <2>2
    <3>2. ~(stack # <<>> /\ s = stack[L])
      BY <1>1, <1>5, <3>1 DEF OnPath, L
    <3>3. rest2[s] = rest[s]
      BY <1>6, <3>2
    <3>4. QED
      BY <1>1, <3>1, <3>3 DEF ToVisit
  <2>3. QED
    BY <2>1, <2>2
<1>9. Looked(D, S, color2, stack2, rest2)
  <2> SUFFICES ASSUME NEW i \in 1 .. L + 1, NEW n \in S, stack2[i] \in D[n], n \notin rest2[stack2[i]]
               PROVE  color2[n] = "black" \/ (i < L + 1 /\ n = stack2[i + 1])
    BY <1>3 DEF Looked
  <2>1. CASE i = L + 1
    <3>1. ~(stack # <<>> /\ v = stack[L])
      BY <1>4, <1>5
    <3>2. rest2[v] = rest[v]
      BY <1>6, <3>1
    <3>3. n \in rest[v]
      BY <1>1, <1>3, <2>1 DEF ToVisit
    <3>4. QED
      BY <1>3, <2>1, <3>2, <3>3
  <2>2. CASE i = L
    <3>1. stack # <<>> /\ stack2[i] = stack[L] /\ L \in 1 .. L
      BY <1>1, <1>3, <1>5, <2>2 DEF L
    <3>2. CASE n = v
      BY <1>1, <1>3, <2>2, <3>2
    <3>3. CASE n # v
      <4>1. n \notin rest[stack[L]]
        BY <1>3, <1>6, <3>1, <3>3
      <4>2. color[n] = "black"
        BY <1>1, <3>1, <4>1 DEF Looked, L
      <4>3. QED
        BY <1>2, <4>2
    <3>4. QED
      BY <3>2, <3>3
  <2>3. CASE i # L + 1 /\ i # L
    <3>1. i \in 1 .. L /\ i + 1 \in 1 .. L /\ i < L /\ i < L + 1
      BY <1>1, <2>3
    <3>2. stack[i] # stack[L] /\ stack[i] \in S
      BY <1>1, <1>3, <2>3, <3>1 DEF OnPath, L
    <3>3. n \notin rest[stack[i]]
      BY <1>3, <1>6, <3>1, <3>2
    <3>4. color[n] = "black" \/ n = stack[i + 1]
      BY <1>1, <1>3, <3>1, <3>3 DEF Looked, L
    <3>5. QED
      BY <1>2, <1>3, <3>1, <3>4
  <2>4. QED
    BY <2>1, <2>2, <2>3
<1>10. Finished(D, S, color2)
  <2>1. {s \in S : color2[s] = "black"} = {s \in S : color[s] = "black"}
    BY <1>2
  <2>2. QED
    BY <1>1, <1>2, <2>1 DEF Finished
<1>11. QED
  BY <1>2, <1>3, <1>7, <1>8, <1>9, <1>10 DEF Searching, color2, stack2

\* A finished step is looked at: only the iterator moves.
LEMMA SeeBlack ==
  ASSUME NEW D, NEW S, NEW color, NEW stack, NEW rest, Searching(D, S, color, stack, rest),
         stack # <<>>, NEW v \in S, color[v] = "black"
  PROVE  Searching(D, S, color, stack, [rest EXCEPT ![stack[Len(stack)]] = @ \ {v}])
<1> DEFINE rest2 == [rest EXCEPT ![stack[Len(stack)]] = @ \ {v}]
<1>1. /\ color \in [S -> Colours] /\ stack \in Seq(S) /\ rest \in [S -> SUBSET S]
      /\ OnPath(D, S, color, stack) /\ ToVisit(D, S, color, rest)
      /\ Looked(D, S, color, stack, rest) /\ Finished(D, S, color)
  BY DEF Searching
<1>2. Len(stack) \in 1 .. Len(stack) /\ stack[Len(stack)] \in S /\ color[stack[Len(stack)]] = "gray"
  <2>1. Len(stack) \in 1 .. Len(stack) /\ stack[Len(stack)] \in S
    BY <1>1
  <2>2. QED
    BY <1>1, <2>1 DEF OnPath
<1>3. /\ rest2 \in [S -> SUBSET S]
      /\ \A s \in S : rest2[s] \subseteq rest[s] /\ rest[s] \ {v} \subseteq rest2[s]
      /\ \A s \in S : color[s] = "white" => rest2[s] = rest[s]
  BY <1>1, <1>2
<1> HIDE DEF rest2
<1>4. ToVisit(D, S, color, rest2)
  BY <1>1, <1>3 DEF ToVisit
<1>5. Looked(D, S, color, stack, rest2)
  <2> SUFFICES ASSUME NEW i \in 1 .. Len(stack), NEW n \in S, stack[i] \in D[n], n \notin rest2[stack[i]]
               PROVE  color[n] = "black" \/ (i < Len(stack) /\ n = stack[i + 1])
    BY DEF Looked
  <2>1. stack[i] \in S
    BY <1>1
  <2>2. CASE n = v
    BY <2>2
  <2>3. CASE n # v
    BY <1>1, <1>3, <2>1, <2>3 DEF Looked
  <2>4. QED
    BY <2>2, <2>3
<1>6. QED
  BY <1>1, <1>3, <1>4, <1>5 DEF Searching, rest2

LEMMA PrefixFacts ==
  ASSUME NEW S, NEW s \in Seq(S), NEW k \in 1 .. Len(s)
  PROVE  /\ SubSeq(s, 1, k - 1) \in Seq(S) /\ Len(SubSeq(s, 1, k - 1)) = k - 1
         /\ \A i \in 1 .. k - 1 : SubSeq(s, 1, k - 1)[i] = s[i]
OBVIOUS

\* The step on top has no dependent left: it is finished.
LEMMA PopGray ==
  ASSUME NEW D, NEW S, NEW color, NEW stack, NEW rest, Searching(D, S, color, stack, rest),
         stack # <<>>, rest[stack[Len(stack)]] = {}
  PROVE  Searching(D, S, [color EXCEPT ![stack[Len(stack)]] = "black"],
                   SubSeq(stack, 1, Len(stack) - 1), rest)
<1> DEFINE L == Len(stack)
           top == stack[L]
           color2 == [color EXCEPT ![top] = "black"]
           stack2 == SubSeq(stack, 1, L - 1)
<1>1. /\ color \in [S -> Colours] /\ stack \in Seq(S) /\ rest \in [S -> SUBSET S]
      /\ OnPath(D, S, color, stack) /\ ToVisit(D, S, color, rest)
      /\ Looked(D, S, color, stack, rest) /\ Finished(D, S, color)
  BY DEF Searching
<1>2. L \in 1 .. L /\ L \in Nat /\ L - 1 \in Nat /\ top \in S
  BY <1>1
<1>3. color[top] = "gray"
  BY <1>1, <1>2 DEF OnPath
<1>4. /\ color2 \in [S -> Colours] /\ color2[top] = "black"
      /\ \A s \in S \ {top} : color2[s] = color[s]
  BY <1>1, <1>2 DEF Colours
<1>5. /\ stack2 \in Seq(S) /\ Len(stack2) = L - 1 /\ \A i \in 1 .. L - 1 : stack2[i] = stack[i]
  BY <1>1, <1>2, PrefixFacts
<1>6. \A n \in S : top \in D[n] => color[n] = "black"
  BY <1>1, <1>2 DEF Looked
<1>7. \A i \in 1 .. L - 1 : i \in 1 .. L /\ i # L /\ stack[i] \in S /\ stack[i] # top
  BY <1>1, <1>2 DEF OnPath
<1> HIDE DEF color2, stack2, top, L
<1>8. OnPath(D, S, color2, stack2)
  <2>1. \A i, j \in 1 .. L - 1 : stack2[i] = stack2[j] => i = j
    BY <1>1, <1>5, <1>7 DEF OnPath, L
  <2>2. \A s \in S : color2[s] = "gray" <=> \E i \in 1 .. L - 1 : stack2[i] = s
    <3> TAKE s \in S
    <3>1. CASE s = top
      BY <1>4, <1>5, <1>7, <3>1
    <3>2. CASE s # top
      <4>1. color2[s] = "gray" <=> \E i \in 1 .. L : stack[i] = s
        BY <1>1, <1>4, <3>2 DEF OnPath, L
      <4>2. (\E i \in 1 .. L : stack[i] = s) => \E i \in 1 .. L - 1 : stack[i] = s
        <5> SUFFICES ASSUME NEW i \in 1 .. L, stack[i] = s PROVE i \in 1 .. L - 1
          OBVIOUS
        <5>1. i # L
          BY <3>2 DEF top
        <5>2. QED
          BY <1>2, <5>1
      <4>3. QED
        BY <1>5, <1>7, <4>1, <4>2
    <3>3. QED
      BY <3>1, <3>2
  <2>3. \A i \in 1 .. (L - 1) - 1 : stack2[i] \in D[stack2[i + 1]]
    <3> TAKE i \in 1 .. (L - 1) - 1
    <3>1. i \in 1 .. L - 1 /\ i + 1 \in 1 .. L - 1
      BY <1>2
    <3>2. QED
      BY <1>1, <1>5, <3>1 DEF OnPath, L
  <2>4. QED
    BY <1>5, <2>1, <2>2, <2>3 DEF OnPath
<1>9. ToVisit(D, S, color2, rest)
  BY <1>1, <1>2, <1>4 DEF ToVisit
<1>10. \A n \in S : color[n] = "black" => color2[n] = "black"
  BY <1>1, <1>4
<1>11. Looked(D, S, color2, stack2, rest)
  <2> SUFFICES ASSUME NEW i \in 1 .. L - 1, NEW n \in S, stack[i] \in D[n], n \notin rest[stack[i]]
               PROVE  color2[n] = "black" \/ (i < L - 1 /\ n = stack2[i + 1])
    BY <1>5 DEF Looked
  <2>1. color[n] = "black" \/ n = stack[i + 1]
    BY <1>1, <1>7 DEF Looked, L
  <2>2. CASE i = L - 1
    <3>1. stack[i + 1] = top
      BY <1>2, <2>2 DEF top
    <3>2. QED
      BY <1>4, <1>10, <2>1, <3>1
  <2>3. CASE i # L - 1
    <3>1. i < L - 1 /\ i + 1 \in 1 .. L - 1
      BY <1>2, <2>3
    <3>2. QED
      BY <1>5, <1>10, <2>1, <3>1
  <2>4. QED
    BY <2>2, <2>3
<1>12. Finished(D, S, color2)
  <2>1. \A s, n \in S : color2[s] = "black" /\ s \in D[n] => color2[n] = "black"
    <3> TAKE s, n \in S
    <3>1. CASE s = top
      BY <1>6, <1>10, <3>1
    <3>2. CASE s # top
      BY <1>1, <1>4, <1>10, <3>2 DEF Finished
    <3>3. QED
      BY <3>1, <3>2
  <2>2. ASSUME NEW X \in SUBSET {s \in S : color2[s] = "black"}, X # {}
        PROVE  \E x \in X : D[x] \cap X = {}
    <3>1. \A s \in X : s \in S /\ (s # top => color[s] = "black")
      BY <1>4
    <3>2. CASE top \in X
      <4>1. \A s \in X : s \notin D[top]
        <5> TAKE s \in X
        <5>1. CASE s = top
          BY <1>2, <1>3, <1>6, <5>1
        <5>2. CASE s # top
          <6>1. color[s] = "black" /\ s \in S
            BY <3>1, <5>2
          <6>2. s \in D[top] => color[top] = "black"
            BY <1>1, <1>2, <6>1 DEF Finished
          <6>3. QED
            BY <1>3, <6>2
        <5>3. QED
          BY <5>1, <5>2
      <4>2. QED
        BY <3>2, <4>1
    <3>3. CASE top \notin X
      <4>1. X \in SUBSET {s \in S : color[s] = "black"}
        BY <3>1, <3>3
      <4>2. QED
        BY <1>1, <2>2, <4>1 DEF Finished
    <3>4. QED
      BY <3>2, <3>3
  <2>3. QED
    BY <2>1, <2>2 DEF Finished
<1>13. QED
  BY <1>1, <1>4, <1>5, <1>8, <1>9, <1>11, <1>12 DEF Searching, color2, stack2, top, L

\* A gray step is looked at: the path from it to the top is a cycle.
LEMMA BackEdge ==
  ASSUME NEW D, NEW S, NEW color, NEW stack, NEW rest, Searching(D, S, color, stack, rest),
         stack # <<>>, NEW v \in rest[stack[Len(stack)]], color[v] = "gray"
  PROVE  /\ CyclePath(stack, v) \in Seq(S) /\ CyclePath(stack, v) # <<>>
         /\ IsCycle(CyclePath(stack, v), D)
<1> DEFINE L == Len(stack)
           a == CHOOSE i \in 1 .. Len(stack) : stack[i] = v
           front == SubSeq(stack, a, L)
           path == front \o <<v>>
<1>1. /\ stack \in Seq(S) /\ rest \in [S -> SUBSET S]
      /\ OnPath(D, S, color, stack) /\ ToVisit(D, S, color, rest)
  BY DEF Searching
<1>2. L \in Nat /\ L \in 1 .. L /\ stack[L] \in S
  BY <1>1
<1>3. v \in S /\ stack[L] \in D[v]
  BY <1>1, <1>2 DEF ToVisit
<1>4. \E i \in 1 .. Len(stack) : stack[i] = v
  BY <1>1, <1>3 DEF OnPath
<1>5. a \in 1 .. L /\ stack[a] = v
  BY <1>4
<1>6. CyclePath(stack, v) = path
  BY DEF CyclePath
<1> HIDE DEF a
<1>7. /\ front \in Seq(S) /\ Len(front) = L - a + 1
      /\ \A i \in 1 .. L - a + 1 : front[i] = stack[a + i - 1]
  <2> HIDE DEF L
  <2>1. L = Len(stack)
    BY DEF L
  <2>2. QED
    BY <1>1, <1>2, <1>5, <2>1
<1> HIDE DEF front
<1>8. /\ path \in Seq(S) /\ Len(path) = L - a + 2
      /\ \A i \in 1 .. L - a + 1 : path[i] = stack[a + i - 1]
      /\ path[L - a + 2] = v
  <2>1. <<v>> \in Seq(S) /\ Len(<<v>>) = 1 /\ <<v>>[1] = v
    BY <1>3
  <2>2. /\ path \in Seq(S) /\ Len(path) = Len(front) + 1
        /\ \A i \in 1 .. Len(front) + 1 : path[i] = IF i <= Len(front) THEN front[i] ELSE <<v>>[i - Len(front)]
    BY <1>7, <2>1, ConcatProperties
  <2> HIDE DEF path
  <2>3. \A i \in 1 .. L - a + 1 : i \in 1 .. Len(front) + 1 /\ i <= Len(front)
    BY <1>2, <1>5, <1>7
  <2>4. L - a + 2 \in 1 .. Len(front) + 1 /\ ~(L - a + 2 <= Len(front)) /\ L - a + 2 - Len(front) = 1
    BY <1>2, <1>5, <1>7
  <2>5. Len(path) = L - a + 2
    BY <1>2, <1>5, <1>7, <2>2
  <2>6. \A i \in 1 .. L - a + 1 : path[i] = stack[a + i - 1]
    BY <1>7, <2>2, <2>3
  <2>7. path[L - a + 2] = v
    BY <2>1, <2>2, <2>4
  <2>8. QED
    BY <2>2, <2>5, <2>6, <2>7
<1> HIDE DEF path
<1>9. Len(path) > 1 /\ Len(path) - 1 = L - a + 1 /\ 1 \in 1 .. L - a + 1 /\ a + 1 - 1 = a
  BY <1>2, <1>5, <1>8
<1>10. path[1] = path[Len(path)]
  BY <1>5, <1>8, <1>9
<1>11. \A i \in 1 .. L - a + 1 : path[i] \in D[path[i + 1]]
  <2> TAKE i \in 1 .. L - a + 1
  <2>1. CASE i = L - a + 1
    <3>1. a + i - 1 = L /\ i + 1 = L - a + 2
      BY <1>2, <1>5, <2>1
    <3>2. QED
      BY <1>3, <1>8, <3>1
  <2>2. CASE i # L - a + 1
    <3>1. /\ i + 1 \in 1 .. L - a + 1 /\ a + i - 1 \in 1 .. L - 1
          /\ a + (i + 1) - 1 = (a + i - 1) + 1
      BY <1>2, <1>5, <2>2
    <3>2. path[i] = stack[a + i - 1] /\ path[i + 1] = stack[(a + i - 1) + 1]
      BY <1>8, <3>1
    <3>3. stack[a + i - 1] \in D[stack[(a + i - 1) + 1]]
      BY <1>1, <3>1 DEF OnPath
    <3>4. QED
      BY <3>2, <3>3
  <2>3. QED
    BY <2>1, <2>2
<1>12. \A i, j \in 1 .. L - a + 1 : path[i] = path[j] => i = j
  <2> TAKE i, j \in 1 .. L - a + 1
  <2>1. a + i - 1 \in 1 .. L /\ a + j - 1 \in 1 .. L /\ (a + i - 1 = a + j - 1 => i = j)
    BY <1>2, <1>5
  <2>2. path[i] = stack[a + i - 1] /\ path[j] = stack[a + j - 1]
    BY <1>8
  <2>3. stack[a + i - 1] = stack[a + j - 1] => a + i - 1 = a + j - 1
    BY <1>1, <2>1 DEF OnPath
  <2>4. QED
    BY <2>1, <2>2, <2>3
<1>13. IsCycle(path, D)
  BY <1>9, <1>10, <1>11, <1>12 DEF IsCycle
<1>14. path # <<>>
  BY <1>8, <1>9
<1>15. QED
  BY <1>6, <1>8, <1>13, <1>14

\* A cycle is a set of steps that each depend on one of them.
LEMMA CycleNotAcyclic ==
  ASSUME NEW D, NEW S, NEW path \in Seq(S), IsCycle(path, D)
  PROVE  ~Acyclic(D, S)
<1> DEFINE X == {path[i] : i \in 1 .. Len(path)}
<1>1. Len(path) \in Nat /\ Len(path) > 1 /\ X \in SUBSET S /\ path[1] \in X
  BY DEF IsCycle
<1>2. ASSUME NEW x \in X PROVE D[x] \cap X # {}
  <2>1. PICK j \in 1 .. Len(path) : x = path[j]
    OBVIOUS
  <2>2. PICK i \in 1 .. Len(path) - 1 : x = path[i + 1]
    <3>1. CASE j = 1
      <4>1. Len(path) - 1 \in 1 .. Len(path) - 1 /\ (Len(path) - 1) + 1 = Len(path)
        BY <1>1
      <4>2. QED
        BY <2>1, <3>1, <4>1 DEF IsCycle
    <3>2. CASE j # 1
      <4>1. j - 1 \in 1 .. Len(path) - 1 /\ (j - 1) + 1 = j
        BY <1>1, <3>2
      <4>2. QED
        BY <2>1, <4>1
    <3>3. QED
      BY <3>1, <3>2
  <2>3. path[i] \in D[x] /\ i \in 1 .. Len(path)
    BY <1>1, <2>2 DEF IsCycle
  <2>4. QED
    BY <2>3
<1>3. QED
  BY <1>1, <1>2 DEF Acyclic

SearchState(S) ==
    [color : [S -> Colours], stack : Seq(S), rest : [S -> SUBSET S], cycle : Seq(S)]

\* What holds after every iteration of the search.
SearchInv(D, S, x) ==
    /\ x.cycle = <<>> => Searching(D, S, x.color, x.stack, x.rest)
    /\ x.cycle # <<>> => IsCycle(x.cycle, D)

White(S, x) == {s \in S : x.color[s] = "white"}

\* The search is over.
Over(S, x) == x.cycle # <<>> \/ (x.stack = <<>> /\ White(S, x) = {})

Top(x) == x.stack[Len(x.stack)]

\* One iteration: a root is entered, the top is left, or its next dependent looked at.
EntersRoot(S, x, y) ==
    \E v \in S : /\ x.stack = <<>> /\ x.color[v] = "white"
                 /\ y.color = [x.color EXCEPT ![v] = "gray"] /\ y.stack = Append(x.stack, v)
                 /\ y.rest = x.rest /\ y.cycle = <<>>

Leaves(x, y) ==
    /\ x.stack # <<>> /\ x.rest[Top(x)] = {}
    /\ y.color = [x.color EXCEPT ![Top(x)] = "black"]
    /\ y.stack = SubSeq(x.stack, 1, Len(x.stack) - 1) /\ y.rest = x.rest /\ y.cycle = <<>>

LooksAt(x, y) ==
    /\ x.stack # <<>>
    /\ \E v \in x.rest[Top(x)] :
         /\ y.rest = [x.rest EXCEPT ![Top(x)] = @ \ {v}]
         /\ \/ x.color[v] = "gray" /\ y.cycle = CyclePath(x.stack, v)
               /\ y.color = x.color /\ y.stack = x.stack
            \/ x.color[v] = "white" /\ y.cycle = <<>>
               /\ y.color = [x.color EXCEPT ![v] = "gray"] /\ y.stack = Append(x.stack, v)
            \/ x.color[v] = "black" /\ y.cycle = <<>>
               /\ y.color = x.color /\ y.stack = x.stack

LEMMA VisitCases ==
  ASSUME NEW S, NEW x \in SearchState(S), ~Over(S, x)
  PROVE  /\ \/ EntersRoot(S, x, Visit(S, x))
            \/ Leaves(x, Visit(S, x))
            \/ LooksAt(x, Visit(S, x))
         /\ Visit(S, x) = [color |-> Visit(S, x).color, stack |-> Visit(S, x).stack,
                           rest |-> Visit(S, x).rest, cycle |-> Visit(S, x).cycle]
<1> DEFINE y == Visit(S, x)
           node == x.stack[Len(x.stack)]
           v == CHOOSE n \in x.rest[node] : TRUE
           r == CHOOSE s \in White(S, x) : TRUE
<1>1. /\ x.cycle = <<>> /\ (x.stack # <<>> \/ White(S, x) # {})
      /\ x = [color |-> x.color, stack |-> x.stack, rest |-> x.rest, cycle |-> x.cycle]
      /\ x.color \in [S -> Colours] /\ x.stack \in Seq(S) /\ x.rest \in [S -> SUBSET S]
  BY DEF Over, SearchState
<1>2. CASE x.stack = <<>>
  <2>1. r \in S /\ x.color[r] = "white"
    BY <1>1, <1>2 DEF White
  <2>2. y = Enter(x, r)
    BY <1>1, <1>2 DEF Visit, White
  <2> HIDE DEF r, y
  <2>3. /\ y.color = [x.color EXCEPT ![r] = "gray"] /\ y.stack = Append(x.stack, r)
        /\ y.rest = x.rest /\ y.cycle = x.cycle
        /\ y = [color |-> y.color, stack |-> y.stack, rest |-> y.rest, cycle |-> y.cycle]
    BY <1>1, <2>2 DEF Enter
  <2>4. QED
    BY <1>1, <1>2, <2>1, <2>3 DEF EntersRoot, y
<1>3. CASE x.stack # <<>> /\ x.rest[node] = {}
  <2>1. y = [x EXCEPT !.color[node] = "black", !.stack = SubSeq(@, 1, Len(@) - 1)]
    BY <1>1, <1>3 DEF Visit
  <2> HIDE DEF y
  <2>2. /\ y.color = [x.color EXCEPT ![node] = "black"] /\ y.stack = SubSeq(x.stack, 1, Len(x.stack) - 1)
        /\ y.rest = x.rest /\ y.cycle = x.cycle
        /\ y = [color |-> y.color, stack |-> y.stack, rest |-> y.rest, cycle |-> y.cycle]
    BY <1>1, <2>1
  <2>3. QED
    BY <1>1, <1>3, <2>2 DEF Leaves, Top, y
<1>4. CASE x.stack # <<>> /\ x.rest[node] # {}
  <2> DEFINE z == [x EXCEPT !.rest[node] = @ \ {v}]
  <2>1. y = Look(z, v)
    BY <1>1, <1>4 DEF Visit
  <2>2. v \in x.rest[node] /\ node \in S /\ v \in S
    BY <1>1, <1>4
  <2>3. z = [x EXCEPT !.rest = [x.rest EXCEPT ![node] = @ \ {v}]]
    OBVIOUS
  <2> HIDE DEF v, y, z, node
  <2>4. /\ z.color = x.color /\ z.stack = x.stack /\ z.cycle = <<>>
        /\ z.rest = [x.rest EXCEPT ![node] = @ \ {v}]
        /\ z = [color |-> z.color, stack |-> z.stack, rest |-> z.rest, cycle |-> z.cycle]
        /\ z.color[v] \in Colours
    BY <1>1, <2>2, <2>3
  <2>5. CASE z.color[v] = "gray"
    <3>1. y = [z EXCEPT !.cycle = CyclePath(z.stack, v)]
      BY <2>1, <2>5 DEF Look
    <3>2. /\ y.color = z.color /\ y.stack = z.stack /\ y.rest = z.rest /\ y.cycle = CyclePath(z.stack, v)
          /\ y = [color |-> y.color, stack |-> y.stack, rest |-> y.rest, cycle |-> y.cycle]
      BY <2>4, <3>1
    <3>3. QED
      BY <1>4, <2>2, <2>4, <2>5, <3>2 DEF LooksAt, Top, y, node
  <2>6. CASE z.color[v] = "white"
    <3>1. y = [z EXCEPT !.color[v] = "gray", !.stack = Append(@, v)]
      BY <2>1, <2>6 DEF Look, Enter
    <3>2. /\ y.color = [z.color EXCEPT ![v] = "gray"] /\ y.stack = Append(z.stack, v)
          /\ y.rest = z.rest /\ y.cycle = z.cycle
          /\ y = [color |-> y.color, stack |-> y.stack, rest |-> y.rest, cycle |-> y.cycle]
      BY <2>4, <3>1
    <3>3. QED
      BY <1>4, <2>2, <2>4, <2>6, <3>2 DEF LooksAt, Top, y, node
  <2>7. CASE z.color[v] = "black"
    <3>1. y = z
      BY <2>1, <2>7 DEF Look
    <3>2. QED
      BY <1>4, <2>2, <2>4, <2>7, <3>1 DEF LooksAt, Top, y, node
  <2>8. QED
    BY <2>4, <2>5, <2>6, <2>7 DEF Colours
<1>5. QED
  BY <1>2, <1>3, <1>4

LEMMA VisitOver ==
  ASSUME NEW S, NEW x \in SearchState(S), Over(S, x)
  PROVE  Visit(S, x) = x
BY DEF Visit, Over, White, SearchState

LEMMA VisitInv ==
  ASSUME NEW D, NEW S, NEW x \in SearchState(S), SearchInv(D, S, x)
  PROVE  Visit(S, x) \in SearchState(S) /\ SearchInv(D, S, Visit(S, x))
<1>1. CASE Over(S, x)
  BY <1>1, VisitOver
<1>2. CASE ~Over(S, x)
  <2>1. PICK y : y = Visit(S, x)
    OBVIOUS
  <2>2. /\ EntersRoot(S, x, y) \/ Leaves(x, y) \/ LooksAt(x, y)
        /\ y = [color |-> y.color, stack |-> y.stack, rest |-> y.rest, cycle |-> y.cycle]
    BY <1>2, <2>1, VisitCases
  <2>3. /\ x.cycle = <<>> /\ Searching(D, S, x.color, x.stack, x.rest)
    BY <1>2 DEF Over, SearchInv
  <2>4. /\ x.color \in [S -> Colours] /\ x.stack \in Seq(S) /\ x.rest \in [S -> SUBSET S]
        /\ x.stack # <<>> => Top(x) \in S
        /\ <<>> \in Seq(S)
    BY DEF SearchState, Top
  <2>5. ASSUME Searching(D, S, y.color, y.stack, y.rest), y.cycle = <<>>
        PROVE  y \in SearchState(S) /\ SearchInv(D, S, y)
    <3>1. y.color \in [S -> Colours] /\ y.stack \in Seq(S) /\ y.rest \in [S -> SUBSET S] /\ y.cycle \in Seq(S)
      BY <2>4, <2>5 DEF Searching
    <3>2. y \in SearchState(S)
      BY <2>2, <3>1 DEF SearchState
    <3>3. QED
      BY <2>5, <3>2 DEF SearchInv
  <2>6. CASE EntersRoot(S, x, y)
    <3>1. PICK v \in S : /\ x.stack = <<>> /\ x.color[v] = "white"
                         /\ y.color = [x.color EXCEPT ![v] = "gray"] /\ y.stack = Append(x.stack, v)
                         /\ y.rest = x.rest /\ y.cycle = <<>>
      BY <2>6 DEF EntersRoot
    <3>2. Searching(D, S, [x.color EXCEPT ![v] = "gray"], Append(x.stack, v), x.rest)
      BY <2>3, <2>4, <3>1, EnterWhite
    <3>3. QED
      BY <2>1, <2>5, <3>1, <3>2
  <2>7. CASE Leaves(x, y)
    <3>1. Searching(D, S, y.color, y.stack, y.rest) /\ y.cycle = <<>>
      BY <2>3, <2>7, PopGray DEF Leaves, Top
    <3>2. QED
      BY <2>1, <2>5, <3>1
  <2>8. CASE LooksAt(x, y)
    <3>1. PICK v \in x.rest[Top(x)] :
         /\ y.rest = [x.rest EXCEPT ![Top(x)] = @ \ {v}]
         /\ \/ x.color[v] = "gray" /\ y.cycle = CyclePath(x.stack, v)
               /\ y.color = x.color /\ y.stack = x.stack
            \/ x.color[v] = "white" /\ y.cycle = <<>>
               /\ y.color = [x.color EXCEPT ![v] = "gray"] /\ y.stack = Append(x.stack, v)
            \/ x.color[v] = "black" /\ y.cycle = <<>>
               /\ y.color = x.color /\ y.stack = x.stack
      BY <2>8 DEF LooksAt
    <3>2. x.stack # <<>> /\ Top(x) \in S /\ v \in S /\ y.rest \in [S -> SUBSET S]
      BY <2>4, <2>8, <3>1 DEF LooksAt
    <3>3. CASE x.color[v] = "gray"
      <4>1. /\ y.cycle = CyclePath(x.stack, v) /\ y.color = x.color /\ y.stack = x.stack
        BY <3>1, <3>3
      <4>2. y.cycle \in Seq(S) /\ y.cycle # <<>> /\ IsCycle(y.cycle, D)
        BY <2>3, <3>2, <3>3, <4>1, BackEdge DEF Top
      <4>3. y \in SearchState(S)
        BY <2>2, <2>4, <3>2, <4>1, <4>2 DEF SearchState
      <4>4. QED
        BY <2>1, <4>2, <4>3 DEF SearchInv
    <3>4. CASE x.color[v] = "white"
      <4>1. /\ y.cycle = <<>> /\ y.color = [x.color EXCEPT ![v] = "gray"] /\ y.stack = Append(x.stack, v)
        BY <3>1, <3>4
      <4>2. Searching(D, S, y.color, y.stack, y.rest)
        BY <2>3, <3>1, <3>2, <3>4, <4>1, EnterWhite, SMTT(30) DEF Top
      <4>3. QED
        BY <2>1, <2>5, <4>1, <4>2
    <3>5. CASE x.color[v] = "black"
      <4>1. /\ y.cycle = <<>> /\ y.color = x.color /\ y.stack = x.stack
        BY <3>1, <3>5
      <4>2. Searching(D, S, y.color, y.stack, y.rest)
        BY <2>3, <3>1, <3>2, <3>5, <4>1, SeeBlack DEF Top
      <4>3. QED
        BY <2>1, <2>5, <4>1, <4>2
    <3>6. QED
      BY <3>1, <3>3, <3>4, <3>5
  <2>9. QED
    BY <2>2, <2>6, <2>7, <2>8
<1>3. QED
  BY <1>1, <1>2

-----------------------------------------------------------------------------
(***************************************************************************)
(* The search ends within its number of iterations.                        *)
(***************************************************************************)

Gray(S, x) == {s \in S : x.color[s] = "gray"}
Edges(S, x) == {e \in S \X S : e[2] \in x.rest[e[1]]}

\* Dependents to look at, steps to enter and to leave.
Work(S, x) == Cardinality(Edges(S, x)) + 2 * Cardinality(White(S, x)) + Cardinality(Gray(S, x))

LEMMA WorkFinite ==
  ASSUME NEW S, IsFiniteSet(S), NEW x
  PROVE  /\ IsFiniteSet(Edges(S, x)) /\ IsFiniteSet(White(S, x)) /\ IsFiniteSet(Gray(S, x))
         /\ Cardinality(Edges(S, x)) \in Nat /\ Cardinality(White(S, x)) \in Nat
         /\ Cardinality(Gray(S, x)) \in Nat /\ Work(S, x) \in Nat
<1>1. IsFiniteSet(S \X S)
  BY FS_Product
<1>2. Edges(S, x) \subseteq S \X S /\ White(S, x) \subseteq S /\ Gray(S, x) \subseteq S
  BY DEF Edges, White, Gray
<1>3. IsFiniteSet(Edges(S, x)) /\ IsFiniteSet(White(S, x)) /\ IsFiniteSet(Gray(S, x))
  BY <1>1, <1>2, FS_Subset
<1>4. /\ Cardinality(Edges(S, x)) \in Nat /\ Cardinality(White(S, x)) \in Nat
      /\ Cardinality(Gray(S, x)) \in Nat
  BY <1>3, FS_CardinalityType
<1>5. QED
  BY <1>3, <1>4 DEF Work

LEMMA VisitWork ==
  ASSUME NEW D, NEW S, IsFiniteSet(S), NEW x \in SearchState(S), SearchInv(D, S, x), ~Over(S, x)
  PROVE  Over(S, Visit(S, x)) \/ Work(S, Visit(S, x)) < Work(S, x)
<1>1. PICK y : y = Visit(S, x)
  OBVIOUS
<1>2. EntersRoot(S, x, y) \/ Leaves(x, y) \/ LooksAt(x, y)
  BY <1>1, VisitCases
<1>3. /\ x.color \in [S -> Colours] /\ x.stack \in Seq(S) /\ x.rest \in [S -> SUBSET S]
  BY DEF SearchState
<1>4. Searching(D, S, x.color, x.stack, x.rest)
  BY DEF Over, SearchInv
<1>5. x.stack # <<>> => Top(x) \in S /\ x.color[Top(x)] = "gray"
  <2> SUFFICES ASSUME x.stack # <<>> PROVE Top(x) \in S /\ x.color[Top(x)] = "gray"
    OBVIOUS
  <2>1. Len(x.stack) \in 1 .. Len(x.stack) /\ Top(x) \in S
    BY <1>3 DEF Top
  <2>2. QED
    BY <1>4, <2>1 DEF Searching, OnPath, Top
<1> DEFINE e == Cardinality(Edges(S, x))
           w == Cardinality(White(S, x))
           g == Cardinality(Gray(S, x))
           e2 == Cardinality(Edges(S, y))
           w2 == Cardinality(White(S, y))
           g2 == Cardinality(Gray(S, y))
<1>6. /\ e \in Nat /\ w \in Nat /\ g \in Nat /\ e2 \in Nat /\ w2 \in Nat /\ g2 \in Nat
      /\ IsFiniteSet(Edges(S, x)) /\ IsFiniteSet(White(S, x)) /\ IsFiniteSet(Gray(S, x))
  BY WorkFinite
<1>7. ASSUME NEW v \in S, x.color[v] = "white", y.color = [x.color EXCEPT ![v] = "gray"]
      PROVE  w2 = w - 1 /\ g2 = g + 1
  <2>1. White(S, y) = White(S, x) \ {v} /\ v \in White(S, x)
    BY <1>3, <1>7 DEF White
  <2>2. Gray(S, y) = Gray(S, x) \cup {v} /\ v \notin Gray(S, x)
    BY <1>3, <1>7 DEF Gray
  <2>3. w2 = w - 1
    BY <1>6, <2>1, FS_RemoveElement
  <2>4. g2 = g + 1
    BY <1>6, <2>2, FS_AddElement
  <2>5. QED
    BY <2>3, <2>4
<1>8. CASE EntersRoot(S, x, y)
  <2>1. PICK v \in S : x.color[v] = "white" /\ y.color = [x.color EXCEPT ![v] = "gray"] /\ y.rest = x.rest
    BY <1>8 DEF EntersRoot
  <2>2. w2 = w - 1 /\ g2 = g + 1
    BY <1>7, <2>1
  <2>3. Edges(S, y) = Edges(S, x)
    BY <2>1 DEF Edges
  <2>4. QED
    BY <1>1, <1>6, <2>2, <2>3 DEF Work
<1>9. CASE Leaves(x, y)
  <2>1. /\ Top(x) \in S /\ x.color[Top(x)] = "gray" /\ y.color = [x.color EXCEPT ![Top(x)] = "black"]
        /\ y.rest = x.rest
    BY <1>5, <1>9 DEF Leaves
  <2>2. Gray(S, y) = Gray(S, x) \ {Top(x)} /\ Top(x) \in Gray(S, x)
    BY <1>3, <2>1 DEF Gray
  <2>3. White(S, y) = White(S, x) /\ Edges(S, y) = Edges(S, x)
    BY <1>3, <2>1 DEF White, Edges
  <2>4. g2 = g - 1
    BY <1>6, <2>2, FS_RemoveElement
  <2>5. QED
    BY <1>1, <1>6, <2>3, <2>4 DEF Work
<1>10. CASE LooksAt(x, y)
  <2>1. PICK v \in x.rest[Top(x)] :
         /\ y.rest = [x.rest EXCEPT ![Top(x)] = @ \ {v}]
         /\ \/ x.color[v] = "gray" /\ y.cycle = CyclePath(x.stack, v)
            \/ x.color[v] = "white" /\ y.color = [x.color EXCEPT ![v] = "gray"]
            \/ x.color[v] = "black" /\ y.color = x.color
    BY <1>10 DEF LooksAt
  <2>2. x.stack # <<>> /\ Top(x) \in S /\ v \in S
    BY <1>3, <1>5, <1>10 DEF LooksAt
  <2>3. Edges(S, y) = Edges(S, x) \ {<<Top(x), v>>} /\ <<Top(x), v>> \in Edges(S, x)
    <3>1. <<Top(x), v>> \in Edges(S, x)
      BY <2>2 DEF Edges
    <3>2. ASSUME NEW a \in S, NEW b \in S
          PROVE  b \in y.rest[a] <=> b \in x.rest[a] /\ <<a, b>> # <<Top(x), v>>
      BY <1>3, <2>1, <2>2
    <3>3. QED
      BY <3>1, <3>2 DEF Edges
  <2>4. e2 = e - 1
    BY <1>6, <2>3, FS_RemoveElement, ZenonT(30)
  <2>5. CASE x.color[v] = "gray" /\ y.cycle = CyclePath(x.stack, v)
    BY <1>1, <1>4, <2>2, <2>5, BackEdge DEF Over, Top
  <2>6. CASE x.color[v] = "white" /\ y.color = [x.color EXCEPT ![v] = "gray"]
    <3>1. w2 = w - 1 /\ g2 = g + 1
      BY <1>7, <2>2, <2>6
    <3>2. QED
      BY <1>1, <1>6, <2>4, <3>1 DEF Work
  <2>7. CASE x.color[v] = "black" /\ y.color = x.color
    <3>1. White(S, y) = White(S, x) /\ Gray(S, y) = Gray(S, x)
      BY <2>7 DEF White, Gray
    <3>2. QED
      BY <1>1, <1>6, <2>4, <3>1 DEF Work
  <2>8. QED
    BY <2>1, <2>5, <2>6, <2>7
<1>11. QED
  BY <1>2, <1>8, <1>9, <1>10

\* The search ends, with a cycle or with every step finished.
LEMMA SearchEnds ==
  ASSUME NEW D, NEW S, IsFiniteSet(S)
  PROVE  \E x \in SearchState(S) :
             SearchInv(D, S, x) /\ Over(S, x) /\ DetectCycle(D, S) = x.cycle
<1> DEFINE X == {x \in SearchState(S) : SearchInv(D, S, x)}
           x0 == [color |-> [s \in S |-> "white"], stack |-> <<>>,
                  rest |-> Adjacency(D, S), cycle |-> <<>>]
           F == [x \in X |-> Visit(S, x)]
           bound == Iterations(S)
<1>1. x0 \in X
  <2>1. /\ [s \in S |-> "white"] \in [S -> Colours] /\ Adjacency(D, S) \in [S -> SUBSET S] /\ <<>> \in Seq(S)
        /\ Len(<<>>) = 0
    BY DEF Adjacency, Colours
  <2>2. OnPath(D, S, [s \in S |-> "white"], <<>>)
    BY <2>1 DEF OnPath
  <2>3. ToVisit(D, S, [s \in S |-> "white"], Adjacency(D, S))
    BY DEF ToVisit, Adjacency
  <2>4. /\ Looked(D, S, [s \in S |-> "white"], <<>>, Adjacency(D, S))
    BY <2>1 DEF Looked
  <2>5. Finished(D, S, [s \in S |-> "white"])
    BY DEF Finished
  <2>6. Searching(D, S, [s \in S |-> "white"], <<>>, Adjacency(D, S))
    BY <2>1, <2>2, <2>3, <2>4, <2>5 DEF Searching
  <2>7. x0 \in SearchState(S)
    BY <2>1 DEF SearchState
  <2>8. QED
    BY <2>6, <2>7 DEF SearchInv
<1>2. \A x \in X : Visit(S, x) \in X
  BY VisitInv
<1>3. F \in [X -> X] /\ \A x \in X : F[x] = Visit(S, x)
  BY <1>2
<1> HIDE DEF F, X, x0
<1>4. PICK f \in [Nat -> X] : f[0] = x0 /\ \A i \in Nat \ {0} : f[i] = F[f[i - 1]]
  BY <1>1, <1>3, Iteration
<1>5. \A i \in Nat \ {0} : i - 1 \in Nat /\ f[i - 1] \in X /\ f[i] = Visit(S, f[i - 1])
  <2> TAKE i \in Nat \ {0}
  <2>1. i - 1 \in Nat
    OBVIOUS
  <2>2. QED
    BY <1>3, <1>4, <2>1
<1>6. f = [i \in Nat |-> IF i = 0 THEN x0 ELSE Visit(S, f[i - 1])]
  BY <1>4, <1>5
<1> DEFINE g == CHOOSE h : h = [i \in Nat |-> IF i = 0 THEN x0 ELSE Visit(S, h[i - 1])]
<1>7. g = [i \in Nat |-> IF i = 0 THEN x0 ELSE Visit(S, g[i - 1])]
  BY <1>6, Zenon
<1>8. DetectCycle(D, S) = g[bound].cycle
  BY Zenon DEF DetectCycle, x0
<1> HIDE DEF g, bound
<1>9. \A i \in Nat : g[i] = f[i]
  <2> DEFINE T == {i \in Nat : g[i] # f[i]}
  <2> SUFFICES ASSUME T # {} PROVE FALSE
    OBVIOUS
  <2>1. PICK i \in T : \A k \in T : i <= k
    BY LeastNat
  <2>2. i \in Nat /\ g[i] # f[i]
    OBVIOUS
  <2>3. i # 0
    BY <1>4, <1>7, <2>2
  <2>4. i - 1 \in Nat /\ ~(i <= i - 1)
    BY <2>2, <2>3
  <2>5. g[i - 1] = f[i - 1]
    BY <2>1, <2>4
  <2>6. QED
    BY <1>5, <1>7, <2>2, <2>3, <2>5
<1>10. bound \in Nat /\ Work(S, x0) <= bound
  <2> DEFINE N == Cardinality(S)
  <2>1. N \in Nat /\ IsFiniteSet(S \X S) /\ Cardinality(S \X S) = N * N
    BY FS_Product, FS_CardinalityType
  <2>2. Edges(S, x0) \subseteq S \X S
    BY DEF Edges
  <2>3. Cardinality(Edges(S, x0)) \in Nat /\ Cardinality(Edges(S, x0)) <= N * N
    BY <2>1, <2>2, FS_Subset, WorkFinite
  <2>4. White(S, x0) = S /\ Gray(S, x0) = {}
    BY DEF White, Gray, x0
  <2>5. Cardinality(Gray(S, x0)) = 0
    BY <2>4, FS_EmptySet
  <2>6. bound = N * (N + 2)
    BY DEF bound, Iterations
  <2>7. N * (N + 2) = N * N + 2 * N /\ N * N \in Nat
    <3> HIDE DEF N
    <3>1. QED
      BY <2>1
  <2> HIDE DEF N
  <2>8. Cardinality(White(S, x0)) = N
    BY <2>4 DEF N
  <2>9. QED
    BY <2>1, <2>3, <2>5, <2>6, <2>7, <2>8 DEF Work
<1>11. \A i \in Nat : Over(S, f[i]) \/ Work(S, f[i]) + i <= bound
  <2> DEFINE T == {i \in Nat : ~(Over(S, f[i]) \/ Work(S, f[i]) + i <= bound)}
  <2> SUFFICES ASSUME T # {} PROVE FALSE
    OBVIOUS
  <2>1. PICK i \in T : \A k \in T : i <= k
    BY LeastNat
  <2>2. i \in Nat /\ ~Over(S, f[i]) /\ ~(Work(S, f[i]) + i <= bound)
    OBVIOUS
  <2>3. \A x : Work(S, x) \in Nat
    BY WorkFinite
  <2>4. i # 0
    BY <1>4, <1>10, <2>2, <2>3
  <2>5. i - 1 \in Nat /\ ~(i <= i - 1)
    BY <2>2, <2>4
  <2>6. Over(S, f[i - 1]) \/ Work(S, f[i - 1]) + (i - 1) <= bound
    BY <2>1, <2>5
  <2>7. f[i - 1] \in SearchState(S) /\ SearchInv(D, S, f[i - 1]) /\ f[i] = Visit(S, f[i - 1])
    BY <1>5, <2>2, <2>4 DEF X
  <2>8. ~Over(S, f[i - 1])
    BY <2>2, <2>7, VisitOver
  <2>9. Work(S, f[i]) < Work(S, f[i - 1])
    BY <2>2, <2>7, <2>8, VisitWork
  <2>10. Work(S, f[i]) \in Nat /\ Work(S, f[i - 1]) \in Nat
    BY <2>3
  <2>11. QED
    BY <1>10, <2>2, <2>5, <2>6, <2>8, <2>9, <2>10
<1>12. Over(S, f[bound])
  <2> SUFFICES ASSUME ~Over(S, f[bound]) PROVE FALSE
    OBVIOUS
  <2>1. Work(S, f[bound]) + bound <= bound
    BY <1>10, <1>11
  <2>2. Work(S, f[bound]) = 0 /\ Work(S, f[bound]) \in Nat
    BY <1>10, <2>1, WorkFinite
  <2>3. Cardinality(White(S, f[bound])) = 0 /\ Cardinality(Gray(S, f[bound])) = 0
    BY <2>2, WorkFinite DEF Work
  <2>4. White(S, f[bound]) = {} /\ Gray(S, f[bound]) = {}
    BY <2>3, WorkFinite, FS_EmptySet
  <2>5. f[bound] \in SearchState(S) /\ SearchInv(D, S, f[bound])
    BY <1>4, <1>10 DEF X
  <2>6. /\ f[bound].cycle = <<>> /\ f[bound].stack \in Seq(S)
        /\ OnPath(D, S, f[bound].color, f[bound].stack)
    BY <2>5 DEF Over, SearchInv, Searching
  <2>7. f[bound].stack # <<>>
    BY <2>4, <2>6 DEF Over
  <2>8. 1 \in 1 .. Len(f[bound].stack) /\ f[bound].stack[1] \in S
    BY <2>6, <2>7
  <2>9. QED
    BY <2>4, <2>6, <2>8 DEF OnPath, Gray
<1>13. QED
  BY <1>4, <1>8, <1>9, <1>10, <1>12 DEF X

\* _detect_cycles is right: it finds no cycle exactly when there is none, and what it
\* reports is one.
LEMMA DetectCycleFacts ==
  ASSUME NEW D, NEW S, IsFiniteSet(S), NoneMissing(D, S)
  PROVE  /\ DetectCycle(D, S) = <<>> <=> Acyclic(D, S)
         /\ DetectCycle(D, S) # <<>> => IsCycle(DetectCycle(D, S), D)
<1>1. PICK x \in SearchState(S) : SearchInv(D, S, x) /\ Over(S, x) /\ DetectCycle(D, S) = x.cycle
  BY SearchEnds
<1>2. x.cycle \in Seq(S) /\ x.color \in [S -> Colours] /\ x.stack \in Seq(S)
  BY DEF SearchState
<1>3. CASE x.cycle # <<>>
  BY <1>1, <1>2, <1>3, CycleNotAcyclic DEF SearchInv
<1>4. CASE x.cycle = <<>>
  <2>1. /\ x.stack = <<>> /\ \A s \in S : x.color[s] # "white"
        /\ OnPath(D, S, x.color, x.stack) /\ Finished(D, S, x.color)
    BY <1>1, <1>4 DEF Over, White, SearchInv, Searching
  <2>2. \A s \in S : x.color[s] # "gray"
    <3>1. Len(x.stack) = 0
      BY <2>1
    <3>2. QED
      BY <2>1, <3>1 DEF OnPath
  <2>3. {s \in S : x.color[s] = "black"} = S
    BY <1>2, <2>1, <2>2 DEF Colours
  <2>4. Acyclic(D, S)
    BY <2>1, <2>3 DEF Finished, Acyclic, NoneMissing
  <2>5. QED
    BY <1>1, <1>4, <2>4
<1>5. QED
  BY <1>3, <1>4

-----------------------------------------------------------------------------
(***************************************************************************)
(* Kahn's algorithm.                                                       *)
(***************************************************************************)

Placed(order) == {order[i] : i \in 1 .. Len(order)}

\* Each step comes after what it depends on.
InOrder(D, order) ==
    \A i \in 1 .. Len(order) : D[order[i]] \subseteq {order[j] : j \in 1 .. i - 1}

KahnState(S) == [inDegree : [S -> Nat], ready : SUBSET S, order : Seq(S)]

\* What holds after every iteration: the order is topological, the degrees count the
\* dependencies outside of it and the ready steps are those without any.
KahnInv(D, S, k) ==
    /\ Cardinality(Placed(k.order)) = Len(k.order)
    /\ InOrder(D, k.order)
    /\ \A s \in S : k.inDegree[s] = Cardinality(D[s] \ Placed(k.order))
    /\ k.ready = {s \in S \ Placed(k.order) : D[s] \subseteq Placed(k.order)}

LEMMA ConsumeInv ==
  ASSUME NEW D, NEW S, IsFiniteSet(S), NoneMissing(D, S), NEW k \in KahnState(S), KahnInv(D, S, k),
         k.ready # {}
  PROVE  /\ Consume(D, S, k) \in KahnState(S) /\ KahnInv(D, S, Consume(D, S, k))
         /\ Len(Consume(D, S, k).order) = Len(k.order) + 1
<1> DEFINE cur == CHOOSE s \in k.ready : TRUE
           dependents == Adjacency(D, S)[cur]
           degree == [s \in S |-> IF s \in dependents THEN k.inDegree[s] - 1 ELSE k.inDegree[s]]
           ready2 == (k.ready \ {cur}) \cup {s \in dependents : degree[s] = 0}
           order2 == Append(k.order, cur)
           C == Placed(k.order)
           C2 == C \cup {cur}
           L == Len(k.order)
<1>1. Consume(D, S, k) = [inDegree |-> degree, ready |-> ready2, order |-> order2]
  BY DEF Consume
<1>2. /\ k.inDegree \in [S -> Nat] /\ k.ready \subseteq S /\ k.order \in Seq(S) /\ L \in Nat
      /\ Cardinality(C) = L /\ InOrder(D, k.order)
      /\ \A s \in S : k.inDegree[s] = Cardinality(D[s] \ C)
      /\ k.ready = {s \in S \ C : D[s] \subseteq C}
  BY DEF KahnState, KahnInv
<1>3. cur \in S /\ cur \notin C /\ D[cur] \subseteq C /\ C \subseteq S
  BY <1>2 DEF Placed
<1>4. dependents = {s \in S : cur \in D[s]}
  BY <1>3 DEF Adjacency
<1>5. \A s \in C : D[s] \subseteq C
  <2> TAKE s \in C
  <2>1. PICK i \in 1 .. L : s = k.order[i]
    BY DEF Placed
  <2>2. \A j \in 1 .. i - 1 : j \in 1 .. L
    BY <1>2
  <2>3. D[s] \subseteq {k.order[j] : j \in 1 .. i - 1}
    BY <1>2, <2>1 DEF InOrder
  <2>4. {k.order[j] : j \in 1 .. i - 1} \subseteq C
    BY <2>2 DEF Placed
  <2>5. QED
    BY <2>3, <2>4
<1> HIDE DEF cur, dependents
<1>6. /\ order2 \in Seq(S) /\ Len(order2) = L + 1 /\ order2[L + 1] = cur
      /\ \A i \in 1 .. L : order2[i] = k.order[i]
  BY <1>2, <1>3
<1> HIDE DEF order2
<1>7. Placed(order2) = C2
  <2>1. 1 .. L + 1 = (1 .. L) \cup {L + 1}
    BY <1>2
  <2>2. ASSUME NEW x PROVE x \in Placed(order2) <=> x \in C2
    BY <1>6, <2>1 DEF Placed
  <2>3. QED
    BY <2>2
<1> HIDE DEF L
<1>8. IsFiniteSet(C) /\ Cardinality(C2) = L + 1
  <2>1. IsFiniteSet(C)
    BY <1>3, FS_Subset
  <2>2. QED
    BY <1>2, <1>3, <2>1, FS_AddElement
<1> HIDE DEF C
<1>9. \A s \in S : degree[s] = Cardinality(D[s] \ C2) /\ degree[s] \in Nat
  <2> TAKE s \in S
  <2>1. IsFiniteSet(D[s] \ C) /\ IsFiniteSet(D[s] \ C2)
    BY FS_Subset DEF NoneMissing
  <2>2. /\ Cardinality(D[s] \ C) \in Nat /\ Cardinality(D[s] \ C2) \in Nat
        /\ k.inDegree[s] = Cardinality(D[s] \ C)
    BY <1>2, <2>1, FS_CardinalityType
  <2>3. CASE s \in dependents
    <3>1. D[s] \ C2 = (D[s] \ C) \ {cur} /\ cur \in D[s] \ C
      BY <1>3, <1>4, <2>3
    <3>2. Cardinality(D[s] \ C2) = Cardinality(D[s] \ C) - 1
      BY <2>1, <3>1, FS_RemoveElement
    <3>3. degree[s] = k.inDegree[s] - 1
      BY <2>3
    <3>4. QED
      BY <2>2, <3>2, <3>3
  <2>4. CASE s \notin dependents
    <3>1. D[s] \ C2 = D[s] \ C
      BY <1>4, <2>4
    <3>2. degree[s] = k.inDegree[s]
      BY <2>4
    <3>3. QED
      BY <2>2, <3>1, <3>2
  <2>5. QED
    BY <2>3, <2>4
<1>10. degree \in [S -> Nat]
  BY <1>9
<1> HIDE DEF degree
<1>11. ready2 = {s \in S \ C2 : D[s] \subseteq C2}
  <2>1. \A s \in S : degree[s] = 0 <=> D[s] \subseteq C2
    <3> TAKE s \in S
    <3>1. IsFiniteSet(D[s] \ C2)
      BY FS_Subset DEF NoneMissing
    <3>2. Cardinality(D[s] \ C2) = 0 <=> D[s] \ C2 = {}
      BY <3>1, FS_EmptySet
    <3>3. QED
      BY <1>9, <3>2
  <2>2. ASSUME NEW s \in S PROVE s \in ready2 <=> s \notin C2 /\ D[s] \subseteq C2
    <3>1. CASE s \in dependents
      <4>1. cur \in D[s] /\ s \notin C /\ s # cur /\ s \notin k.ready
        BY <1>2, <1>3, <1>4, <1>5, <3>1
      <4>2. QED
        BY <2>1, <3>1, <4>1
    <3>2. CASE s \notin dependents
      <4>1. D[s] \subseteq C2 <=> D[s] \subseteq C
        BY <1>4, <3>2
      <4>2. QED
        BY <1>2, <3>2, <4>1
    <3>3. QED
      BY <3>1, <3>2
  <2>3. ready2 \subseteq S
    BY <1>2, <1>4
  <2>4. QED
    BY <2>2, <2>3
<1>12. InOrder(D, order2)
  <2> SUFFICES ASSUME NEW i \in 1 .. L + 1 PROVE D[order2[i]] \subseteq {order2[j] : j \in 1 .. i - 1}
    BY <1>6 DEF InOrder
  <2>1. CASE i = L + 1
    <3>1. i - 1 = L /\ D[order2[i]] \subseteq C
      BY <1>2, <1>3, <1>6, <2>1 DEF L
    <3>2. C = {order2[j] : j \in 1 .. L}
      BY <1>6 DEF C, Placed, L
    <3>3. QED
      BY <3>1, <3>2
  <2>2. CASE i # L + 1
    <3>1. i \in 1 .. L /\ \A j \in 1 .. i - 1 : j \in 1 .. L
      BY <1>2, <2>2 DEF L
    <3>2. {order2[j] : j \in 1 .. i - 1} = {k.order[j] : j \in 1 .. i - 1}
      BY <1>6, <3>1
    <3>3. D[k.order[i]] \subseteq {k.order[j] : j \in 1 .. i - 1}
      BY <1>2, <3>1 DEF InOrder, L
    <3>4. QED
      BY <1>6, <3>1, <3>2, <3>3
  <2>3. QED
    BY <2>1, <2>2
<1> HIDE DEF ready2
<1>13. PICK k2 : k2 = Consume(D, S, k)
  OBVIOUS
<1>14. k2 = [inDegree |-> degree, ready |-> ready2, order |-> order2]
  BY <1>1, <1>13
<1>15. k2.inDegree = degree /\ k2.ready = ready2 /\ k2.order = order2
  BY <1>14
<1>16. k2 \in KahnState(S)
  BY <1>6, <1>10, <1>11, <1>14 DEF KahnState
<1>17. KahnInv(D, S, k2)
  BY <1>6, <1>7, <1>8, <1>9, <1>11, <1>12, <1>15 DEF KahnInv
<1>18. QED
  BY <1>6, <1>13, <1>15, <1>16, <1>17 DEF L

\* While a step is left one is ready.
LEMMA SomeReady ==
  ASSUME NEW D, NEW S, Acyclic(D, S), NEW k \in KahnState(S), KahnInv(D, S, k), Placed(k.order) # S
  PROVE  k.ready # {}
<1>1. Placed(k.order) \subseteq S
  BY DEF KahnState, Placed
<1>2. PICK x \in S \ Placed(k.order) : D[x] \cap (S \ Placed(k.order)) = {}
  BY <1>1 DEF Acyclic
<1>3. D[x] \subseteq Placed(k.order)
  BY <1>2 DEF Acyclic
<1>4. QED
  BY <1>2, <1>3 DEF KahnInv

\* get_execution_order() is right: it puts every step of an acyclic graph after all
\* that it depends on.
LEMMA ExecutionOrderFacts ==
  ASSUME NEW D, NEW S, IsFiniteSet(S), Acyclic(D, S)
  PROVE  IsTopological(ExecutionOrder(D, S), D, S)
<1> DEFINE X == {k \in KahnState(S) : KahnInv(D, S, k)}
           k0 == [inDegree |-> [s \in S |-> Cardinality(D[s])],
                  ready |-> {s \in S : D[s] = {}}, order |-> <<>>]
           step(k) == IF k.ready = {} THEN k ELSE Consume(D, S, k)
           F == [k \in X |-> step(k)]
           N == Cardinality(S)
<1>1. NoneMissing(D, S) /\ N \in Nat
  BY FS_CardinalityType DEF Acyclic, NoneMissing
<1>2. k0 \in X
  <2>1. k0.inDegree = [s \in S |-> Cardinality(D[s])] /\ k0.ready = {s \in S : D[s] = {}} /\ k0.order = <<>>
    OBVIOUS
  <2>2. \A s \in S : Cardinality(D[s]) \in Nat
    BY <1>1, FS_Subset, FS_CardinalityType DEF NoneMissing
  <2>3. Placed(<<>>) = {} /\ Len(<<>>) = 0 /\ <<>> \in Seq(S)
    BY DEF Placed
  <2>4. k0 \in KahnState(S)
    BY <2>2, <2>3 DEF KahnState
  <2>5. InOrder(D, <<>>)
    BY <2>3 DEF InOrder
  <2>6. \A s \in S : D[s] \ {} = D[s]
    OBVIOUS
  <2>7. KahnInv(D, S, k0)
    BY <2>1, <2>3, <2>5, <2>6, FS_EmptySet DEF KahnInv
  <2>8. QED
    BY <2>4, <2>7
<1>3. \A k \in X : step(k) \in X
  BY <1>1, ConsumeInv
<1>4. F \in [X -> X] /\ \A k \in X : F[k] = step(k)
  BY <1>3
<1> HIDE DEF F, X, k0
<1>5. PICK f \in [Nat -> X] : f[0] = k0 /\ \A i \in Nat \ {0} : f[i] = F[f[i - 1]]
  BY <1>2, <1>4, Iteration
<1>6. \A i \in Nat \ {0} : i - 1 \in Nat /\ f[i - 1] \in X /\ f[i] = step(f[i - 1])
  <2> TAKE i \in Nat \ {0}
  <2>1. i - 1 \in Nat
    OBVIOUS
  <2>2. QED
    BY <1>4, <1>5, <2>1
<1>7. f = [i \in Nat |-> IF i = 0 THEN k0 ELSE step(f[i - 1])]
  BY <1>5, <1>6
<1> DEFINE g == CHOOSE h : h = [i \in Nat |-> IF i = 0 THEN k0 ELSE step(h[i - 1])]
<1>8. g = [i \in Nat |-> IF i = 0 THEN k0 ELSE step(g[i - 1])]
  BY <1>7, Zenon
<1>9. ExecutionOrder(D, S) = g[N].order
  BY Zenon DEF ExecutionOrder, k0
<1> HIDE DEF g, N, step
<1>10. \A i \in Nat : g[i] = f[i]
  <2> DEFINE T == {i \in Nat : g[i] # f[i]}
  <2> SUFFICES ASSUME T # {} PROVE FALSE
    OBVIOUS
  <2>1. PICK i \in T : \A j \in T : i <= j
    BY LeastNat
  <2>2. i \in Nat /\ g[i] # f[i]
    OBVIOUS
  <2>3. i # 0
    BY <1>5, <1>8, <2>2
  <2>4. i - 1 \in Nat /\ ~(i <= i - 1)
    BY <2>2, <2>3
  <2>5. g[i - 1] = f[i - 1]
    BY <2>1, <2>4
  <2>6. QED
    BY <1>6, <1>8, <2>2, <2>3, <2>5
<1>11. \A i \in Nat : i <= N => Len(f[i].order) = i
  <2> DEFINE T == {i \in Nat : i <= N /\ Len(f[i].order) # i}
  <2> SUFFICES ASSUME T # {} PROVE FALSE
    OBVIOUS
  <2>1. PICK i \in T : \A j \in T : i <= j
    BY LeastNat
  <2>2. i \in Nat /\ i <= N /\ Len(f[i].order) # i
    OBVIOUS
  <2>3. i # 0
    BY <1>5, <2>2 DEF k0
  <2>4. i - 1 \in Nat /\ ~(i <= i - 1) /\ i - 1 <= N /\ i - 1 # N
    BY <1>1, <2>2, <2>3
  <2>5. Len(f[i - 1].order) = i - 1
    BY <2>1, <2>4
  <2>6. f[i - 1] \in KahnState(S) /\ KahnInv(D, S, f[i - 1]) /\ f[i] = step(f[i - 1])
    BY <1>6, <2>2, <2>3 DEF X
  <2>7. Placed(f[i - 1].order) # S
    BY <2>4, <2>5, <2>6 DEF KahnInv, N
  <2>8. f[i - 1].ready # {}
    BY <2>6, <2>7, SomeReady
  <2>9. f[i] = Consume(D, S, f[i - 1])
    BY <2>6, <2>8 DEF step
  <2>10. Len(f[i].order) = (i - 1) + 1
    BY <1>1, <2>5, <2>6, <2>8, <2>9, ConsumeInv
  <2>11. QED
    BY <2>2, <2>10
<1>12. /\ f[N] \in KahnState(S) /\ KahnInv(D, S, f[N]) /\ Len(f[N].order) = N
       /\ ExecutionOrder(D, S) = f[N].order
  BY <1>1, <1>5, <1>9, <1>10, <1>11 DEF X
<1>13. Placed(f[N].order) = S
  <2>1. Placed(f[N].order) \subseteq S /\ Cardinality(Placed(f[N].order)) = N
    BY <1>12 DEF KahnState, KahnInv, Placed
  <2>2. QED
    BY <2>1, FS_Subset DEF N
<1>14. InOrder(D, f[N].order)
  BY <1>12 DEF KahnInv
<1>15. QED
  BY <1>12, <1>13, <1>14 DEF IsTopological, Placed, InOrder, N

\* _validate_plan accepts exactly the plans without a cycle.
LEMMA ValidFacts ==
  ASSUME NEW D, NEW S \in SUBSET Step, S # {}
  PROVE  Valid(D, S) <=> Acyclic(D, S)
<1>1. IsFiniteSet(S)
  BY FS_Subset, OrchestratorAssumption
<1>2. CASE NoneMissing(D, S)
  BY <1>1, <1>2, DetectCycleFacts DEF Valid, Validates
<1>3. CASE ~NoneMissing(D, S)
  BY <1>3 DEF Valid, Validates, NoneMissing, Acyclic
<1>4. QED
  BY <1>2, <1>3

-----------------------------------------------------------------------------
(***************************************************************************)
(* The inductive invariant.                                                *)
(***************************************************************************)

Started(s) == sub[s] # "none"

\* What is in flight belongs to the wave, and the wave to the plan.
Gathered ==
    /\ executed \subseteq subtasks /\ batch \subseteq subtasks /\ executed \cap batch = {}
    /\ Cardinality(batch) <= MaxParallel
    /\ \A s \in Step : Started(s) => s \in executed \cup batch
    /\ \A s \in Step : sub[s] \in Alive => s \in batch /\ pc \in {"gather", "cancelling"}
    /\ \A s \in batch : Started(s)
    /\ pc = "start" => executed = {} /\ batch = {}
    /\ pc = "end" => batch = {}

\* What a subtask's coroutine left in its status.
Reported ==
    \A s \in Step :
        /\ sub[s] = "trying" => left[s] > 0
        /\ sub[s] = "handoff" => status[s] = "failed"
        /\ sub[s] = "done" => status[s] \in {"success", "failed"}
        /\ s \in executed => IF Started(s) THEN status[s] \in {"success", "failed"}
                                           ELSE status[s] = "skipped"
        /\ s \in executed /\ sub[s] = "raised" => status[s] = "failed"

\* A subtask that was started had only successful dependencies, and they stay so.
AfterSuccess ==
    \A s \in Step : Started(s) => \A d \in dependsOn[s] : sub[d] = "done" /\ status[d] = "success"

\* A run that begins with its own plan has statuses only from what it ran or skipped,
\* and skipped only what has a failed or skipped dependency.
Fresh ==
    ~Stale =>
        /\ subtasks = plan
        /\ pc \in {"start", "gather", "cancelling"} =>
               \A s \in Step \ (executed \cup batch) : status[s] = "pending"
        /\ \A s \in executed : status[s] = "skipped" =>
               \E d \in dependsOn[s] : d \in executed /\ status[d] \in Blocking

IInv ==
    /\ TypeOK /\ Gathered /\ Reported /\ AfterSuccess /\ Fresh
    /\ NothingUnscheduled /\ SkipsExact

LEMMA Parts == IInv => RunSafe /\ SkipsExact
<1> SUFFICES ASSUME IInv PROVE RunSafe /\ SkipsExact
  OBVIOUS
<1> USE DEF IInv
<1>1. NoOrphanSubtask
  <2> DEFINE alive == {s \in Step : sub[s] \in Alive}
  <2>1. alive \subseteq batch /\ IsFiniteSet(batch)
    BY OrchestratorAssumption, FS_Subset DEF Gathered, TypeOK
  <2>2. /\ Cardinality(alive) <= Cardinality(batch)
        /\ Cardinality(alive) \in Nat /\ Cardinality(batch) \in Nat
    BY <2>1, FS_Subset, FS_CardinalityType
  <2>3. Cardinality(alive) <= MaxParallel
    BY <2>2, OrchestratorAssumption DEF Gathered
  <2>4. pc \notin {"gather", "cancelling"} => alive = {}
    BY DEF Gathered
  <2>5. QED
    BY <2>3, <2>4 DEF NoOrphanSubtask
<1>2. StartAfterSuccess
  BY DEF StartAfterSuccess, AfterSuccess, Gathered, TypeOK
<1>3. OnlyThePlan
  BY DEF OnlyThePlan, Fresh, Gathered, Started
<1>4. QED
  BY <1>1, <1>2, <1>3 DEF RunSafe

-----------------------------------------------------------------------------
(***************************************************************************)
(* A wave.                                                                 *)
(***************************************************************************)

\* SkipSet as an operator of the plan S and its dependencies D: what is skipped when the
\* subtasks dn have run, with statuses R.
SkipOf(D, S, R, dn) ==
    LET Closed(X) == \A s \in S \ dn :
                        (\E d \in D[s] : R[d] \in Blocking \/ d \in X) => s \in X
    IN  {s \in S \ dn : \A X \in SUBSET (S \ dn) : Closed(X) => s \in X}

\* The skipped subtasks are those that depend on a failed, a skipped or another
\* subtask of the set, and no others.
LEMMA SkipOfFacts ==
  ASSUME NEW D, NEW S, NEW R, NEW dn
  PROVE  /\ SkipOf(D, S, R, dn) \subseteq S \ dn
         /\ \A s \in S \ dn :
                (\E d \in D[s] : R[d] \in Blocking \/ d \in SkipOf(D, S, R, dn))
                    => s \in SkipOf(D, S, R, dn)
         /\ \A s \in SkipOf(D, S, R, dn) :
                \E d \in D[s] : R[d] \in Blocking \/ d \in SkipOf(D, S, R, dn)
<1> DEFINE unrun == S \ dn
           Closed(X) == \A s \in unrun : (\E d \in D[s] : R[d] \in Blocking \/ d \in X) => s \in X
           skip == SkipOf(D, S, R, dn)
<1>1. skip = {s \in unrun : \A X \in SUBSET unrun : Closed(X) => s \in X}
  BY DEF SkipOf
<1>2. skip \subseteq unrun
  BY <1>1
<1>3. Closed(skip)
  <2> SUFFICES ASSUME NEW s \in unrun, NEW d \in D[s], R[d] \in Blocking \/ d \in skip,
                      NEW X \in SUBSET unrun, Closed(X)
               PROVE  s \in X
    BY <1>1, Zenon
  <2>1. d \in skip => d \in X
    BY <1>1
  <2>2. QED
    BY <2>1
<1>4. \A s \in skip : \E d \in D[s] : R[d] \in Blocking \/ d \in skip
  <2> DEFINE Y == {s \in skip : \E d \in D[s] : R[d] \in Blocking \/ d \in skip}
  <2> HIDE DEF skip
  <2>1. Y \in SUBSET unrun /\ Closed(Y)
    BY <1>2, <1>3
  <2>2. skip \subseteq Y
    BY <1>1, <2>1
  <2>3. QED
    BY <2>2
<1>5. QED
  BY <1>2, <1>3, <1>4

\* It is the least set that is closed in this way.
LEMMA SkipOfLeast ==
  ASSUME NEW D, NEW S, NEW R, NEW dn, NEW X \in SUBSET (S \ dn),
         \A s \in S \ dn : (\E d \in D[s] : R[d] \in Blocking \/ d \in X) => s \in X
  PROVE  SkipOf(D, S, R, dn) \subseteq X
BY DEF SkipOf

LEMMA SkipFacts ==
  ASSUME NEW st, NEW done
  PROVE  /\ SkipSet(st, done) \subseteq subtasks \ done
         /\ \A s \in subtasks \ done :
                (\E d \in dependsOn[s] : st[d] \in Blocking \/ d \in SkipSet(st, done))
                    => s \in SkipSet(st, done)
         /\ \A s \in SkipSet(st, done) :
                \E d \in dependsOn[s] : st[d] \in Blocking \/ d \in SkipSet(st, done)
<1>1. SkipSet(st, done) = SkipOf(dependsOn, subtasks, st, done)
  BY DEF SkipSet, SkipOf
<1>2. QED
  BY <1>1, SkipOfFacts

\* Between two waves: nothing is in flight, and done holds what the run has settled.
Between(st, done) ==
    /\ st \in [Step -> {"pending", "success", "failed", "skipped"}]
    /\ done \subseteq subtasks
    /\ \A s \in Step : sub[s] \notin Alive /\ (Started(s) => s \in done)
    /\ \A s \in done : IF Started(s) THEN st[s] \in {"success", "failed"} ELSE st[s] = "skipped"
    /\ \A s \in done : sub[s] = "raised" => st[s] = "failed"
    /\ \A s \in Step : Started(s) => \A d \in dependsOn[s] : sub[d] = "done" /\ st[d] = "success"
    /\ ~Stale => /\ subtasks = plan
                 /\ \A s \in Step \ done : st[s] = "pending"
                 /\ \A s \in done : st[s] = "skipped" =>
                        \E d \in dependsOn[s] : d \in done /\ st[d] \in Blocking

\* The skip pass keeps that.
LEMMA SkipPass ==
  ASSUME TypeOK, NEW st, NEW done, Between(st, done), NEW skip, skip = SkipSet(st, done)
  PROVE  /\ Between([s \in Step |-> IF s \in skip THEN "skipped" ELSE st[s]], done \cup skip)
         /\ \A s \in subtasks \ (done \cup skip) : \A d \in dependsOn[s] :
                st[d] \notin Blocking /\ d \notin skip
<1> DEFINE st1 == [s \in Step |-> IF s \in skip THEN "skipped" ELSE st[s]]
           all == done \cup skip
<1>1. /\ skip \subseteq subtasks \ done /\ subtasks \subseteq Step
      /\ \A s \in subtasks \ done :
             (\E d \in dependsOn[s] : st[d] \in Blocking \/ d \in skip) => s \in skip
      /\ \A s \in skip : \E d \in dependsOn[s] : st[d] \in Blocking \/ d \in skip
  BY SkipFacts DEF TypeOK
<1>2. /\ st1 \in [Step -> {"pending", "success", "failed", "skipped"}] /\ all \subseteq subtasks
      /\ \A s \in Step : sub[s] \notin Alive /\ (Started(s) => s \in all)
  BY <1>1 DEF Between
<1>3. \A s \in skip : ~Started(s) /\ st1[s] = "skipped" /\ sub[s] # "raised"
  BY <1>1 DEF Between, Started
<1>4. \A s \in Step \ skip : st1[s] = st[s]
  OBVIOUS
<1>5. \A s \in done : s \in Step \ skip
  BY <1>1 DEF Between
<1> HIDE DEF st1, all
<1>6. /\ \A s \in all : IF Started(s) THEN st1[s] \in {"success", "failed"} ELSE st1[s] = "skipped"
      /\ \A s \in all : sub[s] = "raised" => st1[s] = "failed"
  BY <1>3, <1>4, <1>5 DEF Between, all
<1>7. \A s \in Step : Started(s) => \A d \in dependsOn[s] : sub[d] = "done" /\ st1[d] = "success"
  <2> SUFFICES ASSUME NEW s \in Step, Started(s), NEW d \in dependsOn[s]
               PROVE  sub[d] = "done" /\ st1[d] = "success"
    OBVIOUS
  <2>1. d \in Step /\ sub[d] = "done" /\ st[d] = "success"
    BY DEF Between, TypeOK
  <2>2. d \in done
    BY <2>1 DEF Between, Started
  <2>3. QED
    BY <1>4, <1>5, <2>1, <2>2
<1>8. ASSUME ~Stale
      PROVE  /\ subtasks = plan
             /\ \A s \in Step \ all : st1[s] = "pending"
             /\ \A s \in all : st1[s] = "skipped" => \E d \in dependsOn[s] : d \in all /\ st1[d] \in Blocking
  <2>1. /\ subtasks = plan /\ \A s \in Step \ all : st1[s] = "pending"
    BY <1>4, <1>8 DEF Between, all
  <2>2. ASSUME NEW s \in done, st1[s] = "skipped"
        PROVE  \E d \in dependsOn[s] : d \in all /\ st1[d] \in Blocking
    <3>1. PICK d \in dependsOn[s] : d \in done /\ st[d] \in Blocking
      BY <1>4, <1>5, <1>8, <2>2 DEF Between
    <3>2. st1[d] = st[d]
      BY <1>4, <1>5, <3>1
    <3>3. QED
      BY <3>1, <3>2 DEF all
  <2>3. ASSUME NEW s \in skip
        PROVE  \E d \in dependsOn[s] : d \in all /\ st1[d] \in Blocking
    <3>1. PICK d \in dependsOn[s] : st[d] \in Blocking \/ d \in skip
      BY <1>1
    <3>2. d \in Step
      BY <1>1 DEF TypeOK
    <3>3. d \in all
      BY <1>8, <3>1, <3>2 DEF Between, Blocking, all
    <3>4. st1[d] \in Blocking
      BY <1>3, <1>4, <3>1, <3>2 DEF Blocking
    <3>5. QED
      BY <3>3, <3>4
  <2>4. QED
    BY <2>1, <2>2, <2>3 DEF all
<1>9. Between(st1, all)
  BY <1>2, <1>6, <1>7, <1>8 DEF Between
<1>10. QED
  BY <1>1, <1>9 DEF st1, all

\* The types of what a wave leaves alone.
PlanTypes ==
    /\ dependsOn \in [Step -> SUBSET Step] /\ plan \subseteq Step /\ subtasks \subseteq Step
    /\ left \in [Step -> Chains] /\ adaptive \in BOOLEAN /\ runs \in 1 .. MaxRuns

LEMMA KeptPlan ==
  ASSUME TypeOK, UNCHANGED <<planVars, left>>
  PROVE  /\ PlanTypes' /\ UNCHANGED <<dependsOn, plan, subtasks, adaptive, runs, left>>
         /\ (Stale' <=> Stale)
BY DEF TypeOK, PlanTypes, planVars, Stale, Chains

\* A wave starts what is ready, at most max_parallel of it, or ends the run.
LEMMA WaveStep ==
  ASSUME TypeOK, NEW st, NEW done, Between(st, done), Wave(st, done), UNCHANGED <<planVars, left>>
  PROVE  IInv'
<1> DEFINE skip == SkipSet(st, done)
           st1  == [s \in Step |-> IF s \in skip THEN "skipped" ELSE st[s]]
           all  == done \cup skip
<1>1. /\ Between(st1, all)
      /\ \A s \in subtasks \ all : \A d \in dependsOn[s] : st[d] \notin Blocking /\ d \notin skip
  BY SkipPass
<1>2. /\ PlanTypes' /\ UNCHANGED <<dependsOn, plan, subtasks, adaptive, runs, left>>
      /\ (Stale' <=> Stale)
  BY KeptPlan
<1> executed' = all
  BY DEF Wave
<1>3. /\ subtasks \subseteq Step /\ all \subseteq Step /\ dependsOn \in [Step -> SUBSET Step]
      /\ sub \in [Step -> Alive \cup {"none", "done", "raised"}]
      /\ st1 \in [Step -> {"pending", "success", "failed", "skipped"}]
      /\ verdict \in {"none", "success", "failed"}
  BY <1>1 DEF TypeOK, Between
<1>4. CASE Ready(all) = {}
  <2>1. Output(st1, all)
    BY <1>4 DEF Wave
  <2> DEFINE final == [s \in Step |-> IF s \in subtasks \ all THEN "failed" ELSE st1[s]]
  <2>2. /\ status' = final /\ batch' = {} /\ pc' = "end" /\ sub' = sub
        /\ verdict' = IF Unfinished(final) = {} THEN "success" ELSE "failed"
    BY <2>1 DEF Output
  <2> HIDE DEF st1, all, skip
  <2>3. final \in [Step -> {"pending", "success", "failed", "skipped"}] /\ \A s \in all : final[s] = st1[s]
    BY <1>3
  <2> HIDE DEF final
  <2>4. TypeOK'
    BY <1>2, <1>3, <2>2, <2>3 DEF TypeOK, PlanTypes
  <2>5. Gathered'
    <3>1. Cardinality({}) <= MaxParallel
      BY FS_EmptySet, OrchestratorAssumption
    <3>2. QED
      BY <1>1, <1>2, <2>2, <3>1 DEF Gathered, Between, Started
  <2>6. Reported'
    BY <1>1, <1>2, <2>2, <2>3 DEF Reported, Between, Started, Alive
  <2>7. AfterSuccess'
    BY <1>1, <1>2, <1>3, <2>2, <2>3 DEF AfterSuccess, Between, Started
  <2>8. Fresh'
    BY <1>1, <1>2, <1>3, <2>2, <2>3 DEF Fresh, Between
  <2>9. Acyclic(dependsOn, subtasks) => all = subtasks
    <3> SUFFICES ASSUME Acyclic(dependsOn, subtasks), subtasks \ all # {} PROVE FALSE
      BY <1>1 DEF Between
    <3>1. PICK x \in subtasks \ all : dependsOn[x] \cap (subtasks \ all) = {}
      BY DEF Acyclic
    <3>2. dependsOn[x] \subseteq all
      BY <3>1 DEF Acyclic
    <3>3. QED
      BY <1>4, <3>1, <3>2 DEF Ready
  <2>10. NothingUnscheduled'
    <3> SUFFICES ASSUME Acyclic(dependsOn, subtasks)
                 PROVE  all = subtasks /\ (verdict' = "success" <=> \A s \in subtasks : final[s] = "success")
      BY <1>2, <2>2 DEF NothingUnscheduled, Acyclic
    <3>1. \A s \in subtasks : final[s] \in Blocking \/ final[s] = "success"
      BY <1>1, <2>3, <2>9 DEF Between, Blocking
    <3>2. QED
      BY <2>2, <2>9, <3>1 DEF Unfinished, Blocking
  <2>11. SkipsExact'
    <3> SUFFICES ASSUME Acyclic(dependsOn, subtasks), ~Stale
                 PROVE  \A s \in subtasks :
                            final[s] = "skipped" <=> \E d \in dependsOn[s] : final[d] \in Blocking
      BY <1>2, <2>2 DEF SkipsExact, SkipsMatch, Acyclic
    <3> TAKE s \in subtasks
    <3>1. s \in all /\ final[s] = st1[s] /\ \A d \in dependsOn[s] : d \in all /\ final[d] = st1[d]
      BY <2>3, <2>9 DEF Acyclic
    <3>2. CASE Started(s)
      BY <1>1, <1>3, <3>1, <3>2 DEF Between, Blocking
    <3>3. CASE ~Started(s)
      BY <1>1, <3>1, <3>3 DEF Between
    <3>4. QED
      BY <3>2, <3>3
  <2>12. QED
    BY <2>4, <2>5, <2>6, <2>7, <2>8, <2>10, <2>11 DEF IInv
<1>5. CASE Ready(all) # {}
  <2>1. PICK B \in SUBSET Ready(all) :
           /\ Cardinality(B) = WaveSize(Ready(all)) /\ batch' = B
           /\ sub' = [s \in Step |-> IF s \in B THEN "created" ELSE sub[s]]
           /\ status' = st1 /\ pc' = "gather" /\ UNCHANGED verdict
    BY <1>5 DEF Wave
  <2> HIDE DEF st1, all
  <2>2. /\ B \subseteq subtasks \ all /\ \A s \in B : dependsOn[s] \subseteq all
        /\ \A s \in B : sub'[s] = "created"
        /\ \A s \in Step \ B : sub'[s] = sub[s]
    BY <1>3, <2>1 DEF Ready
  <2>3. Cardinality(B) <= MaxParallel
    <3>1. Cardinality(Ready(all)) \in Nat
      BY <1>3, OrchestratorAssumption, FS_Subset, FS_CardinalityType DEF Ready
    <3>2. QED
      BY <2>1, <3>1, OrchestratorAssumption DEF WaveSize
  <2>4. TypeOK'
    BY <1>2, <1>3, <2>1, <2>2 DEF TypeOK, PlanTypes, Alive
  <2>5. \A s \in all : s \notin B /\ s \in Step /\ sub'[s] = sub[s]
    BY <1>3, <2>2
  <2>6. \A s \in Step : sub'[s] = sub[s] \/ (s \in B /\ sub'[s] = "created")
    BY <2>2
  <2>7. Gathered'
    <3>1. /\ all \subseteq subtasks /\ B \subseteq subtasks /\ all \cap B = {}
      BY <1>1, <2>2 DEF Between
    <3>2. \A s \in Step : sub'[s] # "none" => s \in all \cup B
      BY <1>1, <2>6 DEF Between, Started
    <3>3. \A s \in Step : sub'[s] \in Alive => s \in B
      BY <1>1, <2>6 DEF Between
    <3>4. QED
      BY <1>2, <2>1, <2>2, <2>3, <3>1, <3>2, <3>3 DEF Gathered, Started
  <2>8. Reported'
    BY <1>1, <1>2, <2>1, <2>5, <2>6 DEF Reported, Between, Started, Alive
  <2>9. AfterSuccess'
    <3> SUFFICES ASSUME NEW s \in Step, sub'[s] # "none", NEW d \in dependsOn[s]
                 PROVE  sub'[d] = "done" /\ st1[d] = "success"
      BY <1>2, <2>1 DEF AfterSuccess, Started
    <3>1. CASE s \in B
      <4>1. d \in all
        BY <2>2, <3>1
      <4>2. st[d] \notin Blocking /\ d \notin skip
        BY <1>1, <2>2, <3>1
      <4>3. st1[d] = st[d]
        BY <1>3, <4>1, <4>2 DEF st1
      <4>4. Started(d) /\ st1[d] = "success"
        BY <1>1, <4>1, <4>2, <4>3 DEF Between, Blocking
      <4>5. sub[d] = "done"
        BY <1>1, <1>3, <4>1, <4>4 DEF Between, Started
      <4>6. QED
        BY <2>5, <4>1, <4>4, <4>5
    <3>2. CASE s \notin B
      <4>1. d \in Step /\ sub[d] = "done" /\ st1[d] = "success"
        BY <1>1, <1>3, <2>2, <3>2 DEF Between, Started
      <4>2. d \in all
        BY <1>1, <4>1 DEF Between, Started
      <4>3. QED
        BY <2>5, <4>1, <4>2
    <3>3. QED
      BY <3>1, <3>2
  <2>10. Fresh'
    BY <1>1, <1>2, <1>3, <2>1 DEF Fresh, Between
  <2>11. NothingUnscheduled' /\ SkipsExact'
    BY <2>1 DEF NothingUnscheduled, SkipsExact
  <2>12. QED
    BY <2>4, <2>7, <2>8, <2>9, <2>10, <2>11 DEF IInv
<1>6. QED
  BY <1>4, <1>5

LEMMA FirstWaveStep == IInv /\ FirstWave => IInv'
<1> SUFFICES ASSUME IInv, FirstWave PROVE IInv'
  OBVIOUS
<1>1. TypeOK /\ pc = "start" /\ Wave(status, {}) /\ UNCHANGED <<planVars, left>>
  BY DEF IInv, FirstWave
<1>2. executed = {} /\ batch = {} /\ \A s \in Step : sub[s] = "none"
  BY <1>1 DEF IInv, Gathered, Started
<1>3. Between(status, {})
  BY <1>1, <1>2 DEF IInv, TypeOK, Fresh, Between, Started, Alive
<1>4. QED
  BY <1>1, <1>3, WaveStep

LEMMA NextWaveStep == IInv /\ NextWave => IInv'
<1> SUFFICES ASSUME IInv, NextWave PROVE IInv'
  OBVIOUS
<1> DEFINE done == executed \cup batch
<1>1. /\ TypeOK /\ pc = "gather" /\ BatchEnded /\ Wave(Recorded, done) /\ UNCHANGED <<planVars, left>>
  BY DEF IInv, NextWave
<1>2. \A s \in Step : sub[s] \notin Alive
  BY <1>1 DEF IInv, Gathered, BatchEnded
<1>3. \A s \in batch : sub[s] \in {"done", "raised"}
  BY <1>1, <1>2 DEF IInv, Gathered, TypeOK, Started, Alive
<1>4. /\ Recorded \in [Step -> {"pending", "success", "failed", "skipped"}]
      /\ \A s \in Step : Recorded[s] = IF s \in batch /\ sub[s] = "raised" THEN "failed" ELSE status[s]
      /\ \A s \in Step \ batch : Recorded[s] = status[s]
  BY <1>1 DEF Recorded, TypeOK
<1>5. done \subseteq subtasks /\ subtasks \subseteq Step /\ \A s \in Step : Started(s) => s \in done
  BY <1>1 DEF IInv, Gathered, TypeOK
<1>6. /\ \A s \in done : IF Started(s) THEN Recorded[s] \in {"success", "failed"} ELSE Recorded[s] = "skipped"
      /\ \A s \in done : sub[s] = "raised" => Recorded[s] = "failed"
  <2>1. ASSUME NEW s \in batch
        PROVE  Started(s) /\ Recorded[s] \in {"success", "failed"} /\ (sub[s] = "raised" => Recorded[s] = "failed")
    BY <1>3, <1>4, <1>5 DEF IInv, Reported, Started
  <2>2. ASSUME NEW s \in executed
        PROVE  /\ IF Started(s) THEN Recorded[s] \in {"success", "failed"} ELSE Recorded[s] = "skipped"
               /\ sub[s] = "raised" => Recorded[s] = "failed"
    <3>1. Recorded[s] = status[s]
      BY <1>4, <1>5 DEF IInv, Gathered
    <3>2. QED
      BY <1>5, <3>1 DEF IInv, Reported
  <2>3. QED
    BY <2>1, <2>2
<1>7. \A s \in Step : Started(s) => \A d \in dependsOn[s] : sub[d] = "done" /\ Recorded[d] = "success"
  BY <1>1, <1>4 DEF IInv, AfterSuccess, TypeOK
<1>8. ASSUME ~Stale
      PROVE  /\ subtasks = plan
             /\ \A s \in Step \ done : Recorded[s] = "pending"
             /\ \A s \in done : Recorded[s] = "skipped" =>
                    \E d \in dependsOn[s] : d \in done /\ Recorded[d] \in Blocking
  <2>1. subtasks = plan /\ \A s \in Step \ done : Recorded[s] = "pending"
    BY <1>1, <1>4, <1>8 DEF IInv, Fresh
  <2>2. ASSUME NEW s \in done, Recorded[s] = "skipped"
        PROVE  \E d \in dependsOn[s] : d \in done /\ Recorded[d] \in Blocking
    <3>1. s \in executed /\ status[s] = "skipped"
      BY <1>3, <1>4, <1>5, <1>6, <2>2 DEF Started
    <3>2. PICK d \in dependsOn[s] : d \in executed /\ status[d] \in Blocking
      BY <1>8, <3>1 DEF IInv, Fresh
    <3>3. Recorded[d] = status[d]
      BY <1>4, <1>5, <3>2 DEF IInv, Gathered
    <3>4. QED
      BY <3>2, <3>3
  <2>3. QED
    BY <2>1, <2>2
<1>9. Between(Recorded, done)
  BY <1>2, <1>4, <1>5, <1>6, <1>7, <1>8 DEF Between
<1>10. QED
  BY <1>1, <1>9, WaveStep

-----------------------------------------------------------------------------
(***************************************************************************)
(* A subtask's coroutine.                                                  *)
(***************************************************************************)

LEMMA SubtaskFacts ==
  ASSUME IInv, NEW s \in Step, sub[s] \in Alive,
         NEW v \in {"trying", "handoff", "done", "raised"}, sub' = [sub EXCEPT ![s] = v],
         NEW w \in {"pending", "success", "failed", "skipped"}, status' = [status EXCEPT ![s] = w],
         NEW n \in Chains, left' = [left EXCEPT ![s] = n],
         v = "trying" => n > 0, v = "handoff" => w = "failed", v = "done" => w \in {"success", "failed"},
         UNCHANGED <<planVars, executed, batch, pc, verdict>>
  PROVE  IInv'
<1>1. /\ UNCHANGED <<dependsOn, plan, subtasks, adaptive, runs, executed, batch, pc, verdict>>
      /\ (Stale' <=> Stale)
  BY DEF planVars, Stale
<1>2. /\ s \in batch /\ s \notin executed /\ pc \in {"gather", "cancelling"}
  BY DEF IInv, Gathered
<1>3. /\ sub'[s] = v /\ status'[s] = w /\ left'[s] = n
      /\ \A t \in Step \ {s} : sub'[t] = sub[t] /\ status'[t] = status[t] /\ left'[t] = left[t]
  BY DEF IInv, TypeOK
<1>4. v # "none" /\ sub[s] # "none" /\ sub[s] # "done"
  BY DEF Alive
<1>5. TypeOK'
  BY <1>1, <1>4 DEF IInv, TypeOK, Alive, Chains
<1>6. Gathered'
  BY <1>1, <1>2, <1>3, <1>4 DEF IInv, Gathered, TypeOK, Started
<1>7. Reported'
  <2>1. ASSUME NEW t \in Step \ {s}
        PROVE  /\ sub'[t] = "trying" => left'[t] > 0
               /\ sub'[t] = "handoff" => status'[t] = "failed"
               /\ sub'[t] = "done" => status'[t] \in {"success", "failed"}
               /\ t \in executed => IF sub'[t] # "none" THEN status'[t] \in {"success", "failed"}
                                                        ELSE status'[t] = "skipped"
               /\ t \in executed /\ sub'[t] = "raised" => status'[t] = "failed"
    BY <1>3 DEF IInv, Reported, Started
  <2>2. QED
    BY <1>1, <1>2, <1>3, <2>1 DEF Reported, Started
<1>8. AfterSuccess'
  <2> SUFFICES ASSUME NEW t \in Step, sub'[t] # "none", NEW d \in dependsOn[t]
               PROVE  sub'[d] = "done" /\ status'[d] = "success"
    BY <1>1 DEF AfterSuccess, Started
  <2>1. d \in Step /\ sub[d] = "done" /\ status[d] = "success"
    BY <1>3, <1>4 DEF IInv, AfterSuccess, Started, TypeOK
  <2>2. QED
    BY <1>3, <1>4, <2>1
<1>9. Fresh'
  <2>1. \A t \in executed : t \in Step \ {s}
    BY <1>2 DEF IInv, TypeOK
  <2>2. \A t \in Step \ (executed \cup batch) : status'[t] = status[t]
    BY <1>2, <1>3
  <2>3. QED
    BY <1>1, <1>3, <2>1, <2>2 DEF IInv, Fresh
<1>10. NothingUnscheduled' /\ SkipsExact'
  BY <1>1, <1>2 DEF NothingUnscheduled, SkipsExact
<1>11. QED
  BY <1>5, <1>6, <1>7, <1>8, <1>9, <1>10 DEF IInv

LEMMA TryNextStep ==
  ASSUME IInv, NEW s \in Step, sub[s] \in Alive, NEW n \in Chains, TryNext(s, n)
  PROVE  IInv'
<1> DEFINE v == IF n = 0 THEN "handoff" ELSE "trying"
           w == IF n = 0 THEN "failed" ELSE status[s]
<1>1. /\ sub' = [sub EXCEPT ![s] = v] /\ left' = [left EXCEPT ![s] = n]
      /\ UNCHANGED <<planVars, executed, batch, pc, verdict>>
  BY DEF TryNext
<1>2. status' = [status EXCEPT ![s] = w] /\ w \in {"pending", "success", "failed", "skipped"}
  BY DEF TryNext, IInv, TypeOK
<1>3. /\ v \in {"trying", "handoff", "done", "raised"} /\ (v = "trying" => n > 0)
      /\ (v = "handoff" => w = "failed") /\ v # "done"
  BY DEF Chains
<1> HIDE DEF v, w
<1>4. QED
  BY <1>1, <1>2, <1>3, SubtaskFacts

LEMMA SubtaskStep ==
  ASSUME IInv, NEW s \in Step, Subtask(s)
  PROVE  IInv'
<1>1. sub[s] \in Alive
  BY DEF Subtask, StartSubtask, AgentFails, AgentSucceeds, HandoffRouted, SubtaskRaises, Alive
<1>2. CASE StartSubtask(s)
  BY <1>1, <1>2, TryNextStep DEF StartSubtask
<1>3. CASE AgentFails(s)
  <2>1. left[s] - 1 \in Chains
    BY <1>3, OrchestratorAssumption DEF AgentFails, IInv, TypeOK, Reported, Chains
  <2>2. QED
    BY <1>1, <1>3, <2>1, TryNextStep DEF AgentFails
<1>4. 0 \in Chains
  BY OrchestratorAssumption DEF Chains
<1>5. CASE AgentSucceeds(s)
  <2>1. /\ sub' = [sub EXCEPT ![s] = "done"] /\ status' = [status EXCEPT ![s] = "success"]
        /\ left' = [left EXCEPT ![s] = 0] /\ UNCHANGED <<planVars, executed, batch, pc, verdict>>
    BY <1>5 DEF AgentSucceeds
  <2>2. QED
    BY <1>1, <1>4, <2>1, SubtaskFacts
<1>6. CASE HandoffRouted(s)
  <2>1. /\ sub' = [sub EXCEPT ![s] = "done"] /\ UNCHANGED <<planVars, executed, batch, pc, verdict>>
        /\ sub[s] = "handoff"
    BY <1>6 DEF HandoffRouted
  <2>2. /\ status' = [status EXCEPT ![s] = "failed"] /\ left' = [left EXCEPT ![s] = left[s]]
        /\ left[s] \in Chains
    BY <1>6, <2>1 DEF HandoffRouted, IInv, TypeOK, Reported
  <2>3. QED
    BY <1>1, <2>1, <2>2, SubtaskFacts
<1>7. CASE SubtaskRaises(s)
  <2>1. /\ sub' = [sub EXCEPT ![s] = "raised"] /\ left' = [left EXCEPT ![s] = 0]
        /\ UNCHANGED <<planVars, executed, batch, pc, verdict>>
    BY <1>7 DEF SubtaskRaises
  <2>2. status' = [status EXCEPT ![s] = status[s]] /\ status[s] \in {"pending", "success", "failed", "skipped"}
    BY <1>7 DEF SubtaskRaises, IInv, TypeOK
  <2>3. QED
    BY <1>1, <1>4, <2>1, <2>2, SubtaskFacts
<1>8. QED
  BY <1>2, <1>3, <1>5, <1>6, <1>7 DEF Subtask

-----------------------------------------------------------------------------
(***************************************************************************)
(* A run.                                                                  *)
(***************************************************************************)

LEMMA InitIInv == Init => IInv
<1> SUFFICES ASSUME Init PROVE IInv
  OBVIOUS
<1>1. /\ dependsOn \in [Step -> SUBSET Step]
  BY OrchestratorAssumption DEF Init, Plans
<1>2. /\ plan = FirstPlan /\ subtasks = FirstPlan /\ executed = {} /\ batch = {}
      /\ status = [s \in Step |-> "pending"] /\ sub = [s \in Step |-> "none"]
      /\ left = [s \in Step |-> 0]
      /\ pc = "start" /\ verdict = "none" /\ runs = 1 /\ adaptive \in BOOLEAN
  BY DEF Init
<1>3. TypeOK
  BY <1>1, <1>2, OrchestratorAssumption DEF TypeOK, Chains
<1>4. Gathered
  <2>1. Cardinality({}) <= MaxParallel
    BY FS_EmptySet, OrchestratorAssumption
  <2>2. QED
    BY <1>2, <2>1 DEF Gathered, Started, Alive
<1>5. Reported /\ AfterSuccess /\ Fresh
  BY <1>2 DEF Reported, AfterSuccess, Fresh, Started
<1>6. NothingUnscheduled /\ SkipsExact
  BY <1>2 DEF NothingUnscheduled, SkipsExact
<1>7. QED
  BY <1>3, <1>4, <1>5, <1>6 DEF IInv

\* Steps that only move the run on.
LEMMA MoveStep ==
  ASSUME IInv, CallerCancels \/ FinishCancel \/ Return \/ UNCHANGED vars
  PROVE  IInv'
<1>1. /\ UNCHANGED <<dependsOn, plan, subtasks, adaptive, runs, status, left, executed, batch, sub, verdict>>
      /\ (Stale' <=> Stale)
      /\ pc' \in {"start", "gather", "cancelling", "end", "returned", "raised"}
      /\ pc' = "end" => pc = "end"
      /\ pc' = "start" => pc = "start"
  BY DEF CallerCancels, FinishCancel, Return, vars, planVars, Stale, IInv, TypeOK
<1>2. pc' \in {"start", "gather", "cancelling"} => pc \in {"start", "gather", "cancelling"}
  BY DEF CallerCancels, FinishCancel, Return, vars
<1>3. TypeOK'
  BY <1>1 DEF IInv, TypeOK
<1>4. Gathered'
  <2>1. \A s \in Step : sub[s] \in Alive => s \in batch /\ pc' \in {"gather", "cancelling"}
    BY DEF IInv, Gathered, CallerCancels, FinishCancel, BatchEnded, Return, vars
  <2>2. QED
    BY <1>1, <2>1 DEF IInv, Gathered, Started
<1>5. Reported' /\ AfterSuccess'
  BY <1>1 DEF IInv, Reported, AfterSuccess, Started
<1>6. Fresh'
  BY <1>1, <1>2 DEF IInv, Fresh
<1>7. NothingUnscheduled' /\ SkipsExact'
  BY <1>1 DEF IInv, NothingUnscheduled, SkipsExact, SkipsMatch, Acyclic
<1>8. QED
  BY <1>3, <1>4, <1>5, <1>6, <1>7 DEF IInv

LEMMA NextRunStep ==
  ASSUME IInv, NEW P \in (SUBSET Step) \ {{}}, NextRun(P)
  PROVE  IInv'
<1>1. PICK D \in Plans(P, adaptive') : Register(P, D)
  BY DEF NextRun
<1>2. D \in [P -> SUBSET Step]
  BY <1>1 DEF Plans
<1>3. PICK kept \in SUBSET subtasks :
         /\ subtasks' = kept \cup P /\ (adaptive' => kept = {})
         /\ dependsOn' = [s \in Step |-> IF s \in P THEN D[s] ELSE IF s \in kept THEN dependsOn[s] ELSE {}]
         /\ status' = [s \in Step |-> IF s \in kept THEN status[s] ELSE "pending"]
  BY <1>1 DEF Register
<1>4. /\ plan' = P /\ adaptive' \in BOOLEAN /\ executed' = {} /\ batch' = {}
      /\ sub' = [s \in Step |-> "none"] /\ left' = left
      /\ runs' \in 1 .. MaxRuns /\ runs' > 1
      /\ pc' \in {"start", "end"} /\ verdict' \in {"none", "failed"}
  BY OrchestratorAssumption DEF NextRun, IInv, TypeOK
<1>5. TypeOK'
  BY <1>2, <1>3, <1>4 DEF IInv, TypeOK
<1>6. Gathered'
  <2>1. Cardinality({}) <= MaxParallel
    BY FS_EmptySet, OrchestratorAssumption
  <2>2. QED
    BY <1>4, <2>1 DEF Gathered, Started, Alive
<1>7. Reported' /\ AfterSuccess'
  BY <1>4 DEF Reported, AfterSuccess, Started
<1>8. (~Stale)' => subtasks' = P /\ \A s \in Step : status'[s] = "pending"
  BY <1>3, <1>4 DEF Stale
<1>9. Fresh'
  BY <1>4, <1>8 DEF Fresh
<1>10. NothingUnscheduled'
  <2>1. subtasks' \in SUBSET Step /\ subtasks' # {}
    BY <1>3, <1>5 DEF TypeOK
  <2> PICK E, S : E = dependsOn' /\ S = subtasks'
    OBVIOUS
  <2>a. S \in SUBSET Step /\ S # {}
    BY <2>1
  <2>b. Valid(E, S) <=> Acyclic(E, S)
    BY <2>a, ValidFacts
  <2>2. pc' = "end" => ~Valid(dependsOn', subtasks')
    BY DEF NextRun
  <2>3. QED
    BY <2>b, <2>2 DEF NothingUnscheduled
<1>11. SkipsExact'
  BY <1>5, <1>8 DEF SkipsExact, SkipsMatch, Blocking, TypeOK
<1>12. QED
  BY <1>5, <1>6, <1>7, <1>9, <1>10, <1>11 DEF IInv

LEMMA NextIInv == IInv /\ [Next]_vars => IInv'
<1> SUFFICES ASSUME IInv, [Next]_vars PROVE IInv'
  OBVIOUS
<1>1. CASE FirstWave \/ NextWave
  BY <1>1, FirstWaveStep, NextWaveStep
<1>2. CASE FinishCancel \/ Return \/ CallerCancels \/ Terminated \/ UNCHANGED vars
  BY <1>2, MoveStep DEF Terminated
<1>3. ASSUME NEW s \in Step, Subtask(s) PROVE IInv'
  BY <1>3, SubtaskStep
<1>4. ASSUME NEW P \in (SUBSET Step) \ {{}}, NextRun(P) PROVE IInv'
  BY <1>4, NextRunStep
<1>5. QED
  BY <1>1, <1>2, <1>3, <1>4 DEF Next, Scheduler

\* The inductive invariant holds in every reachable state.
LEMMA Invariance == Spec => []IInv
BY InitIInv, NextIInv, PTL DEF Spec

-----------------------------------------------------------------------------
(***************************************************************************)
(* What validation says of the plan that is being run.                     *)
(***************************************************************************)

\* What is executed has no cycle; a run that ends without having executed anything
\* was refused for one.
Accepted ==
    /\ subtasks # {}
    /\ pc \in {"start", "gather", "cancelling"} => Acyclic(dependsOn, subtasks)
    /\ pc = "end" /\ executed = {} => ~Acyclic(dependsOn, subtasks)

LEMMA InitAccepted == Init => Accepted
BY ValidFacts, OrchestratorAssumption DEF Init, Accepted

LEMMA NextAccepted == IInv /\ IInv' /\ Accepted /\ [Next]_vars => Accepted'
<1> SUFFICES ASSUME IInv, IInv', Accepted, [Next]_vars PROVE Accepted'
  OBVIOUS
<1>1. CASE FirstWave \/ NextWave
  <2>1. UNCHANGED <<dependsOn, subtasks>> /\ Acyclic(dependsOn, subtasks) /\ pc' \in {"gather", "end"}
    BY <1>1 DEF FirstWave, NextWave, Wave, Output, planVars, Accepted
  <2>2. pc' = "end" => executed' = subtasks
    BY <2>1 DEF IInv, NothingUnscheduled
  <2>3. QED
    BY <2>1, <2>2 DEF Accepted
<1>2. CASE FinishCancel \/ Return \/ CallerCancels \/ Terminated \/ UNCHANGED vars
  BY <1>2 DEF FinishCancel, Return, CallerCancels, Terminated, vars, planVars, Accepted
<1>3. ASSUME NEW s \in Step, Subtask(s) PROVE Accepted'
  <2>1. UNCHANGED <<planVars, executed, pc>>
    BY <1>3 DEF Subtask, StartSubtask, AgentFails, TryNext, AgentSucceeds, HandoffRouted, SubtaskRaises
  <2>2. QED
    BY <2>1 DEF planVars, Accepted
<1>4. ASSUME NEW P \in (SUBSET Step) \ {{}}, NextRun(P) PROVE Accepted'
  <2>1. subtasks' # {} /\ subtasks' \in SUBSET Step
    BY <1>4 DEF NextRun, Register, IInv, TypeOK
  <2>2. Valid(dependsOn', subtasks') <=> Acyclic(dependsOn', subtasks')
    BY <2>1, ValidFacts
  <2>3. pc' = IF Valid(dependsOn', subtasks') THEN "start" ELSE "end"
    BY <1>4 DEF NextRun
  <2>4. QED
    BY <2>1, <2>2, <2>3 DEF Accepted
<1>5. QED
  BY <1>1, <1>2, <1>3, <1>4 DEF Next, Scheduler

LEMMA AcceptedPlan == IInv /\ Accepted => PlanValidated
<1> SUFFICES ASSUME IInv, Accepted, Registered
             PROVE  /\ (pc = "start") <=> Acyclic(dependsOn, subtasks)
                    /\ NoneMissing(dependsOn, subtasks) /\ pc = "end" =>
                           IsCycle(DetectCycle(dependsOn, subtasks), dependsOn)
                    /\ pc = "start" =>
                           IsTopological(ExecutionOrder(dependsOn, subtasks), dependsOn, subtasks)
  BY DEF PlanValidated
<1>1. IsFiniteSet(subtasks)
  BY FS_Subset, OrchestratorAssumption DEF IInv, TypeOK
<1>2. pc \in {"start", "end"} /\ executed = {}
  BY DEF Registered
<1>3. (pc = "start") <=> Acyclic(dependsOn, subtasks)
  BY <1>2 DEF Accepted
<1>4. QED
  BY <1>1, <1>2, <1>3, DetectCycleFacts, ExecutionOrderFacts

-----------------------------------------------------------------------------
(***************************************************************************)
(* The first run implements WorkflowRun.                                   *)
(***************************************************************************)

\* In the first run the plan is the first plan, it was accepted, the verdict comes
\* with the end, and what is tried has no status yet.
FirstRun ==
    /\ runs = 1 => /\ subtasks = FirstPlan /\ Acyclic(dependsOn, subtasks)
                   /\ \A s \in Step : sub[s] \in {"created", "trying"} => status[s] = "pending"
    /\ pc \in {"start", "gather", "cancelling"} => verdict = "none"
    /\ pc = "end" => verdict \in {"success", "failed"}

LEMMA InitFirstRun == Init => FirstRun
<1> SUFFICES ASSUME Init PROVE FirstRun
  OBVIOUS
<1>1. Acyclic(dependsOn, FirstPlan)
  BY ValidFacts, OrchestratorAssumption DEF Init
<1>2. QED
  BY <1>1 DEF Init, FirstRun

LEMMA WaveFirstRun ==
  ASSUME IInv, FirstRun, FirstWave \/ NextWave
  PROVE  FirstRun'
<1>1. UNCHANGED <<dependsOn, subtasks, runs>> /\ pc \in {"start", "gather"}
  BY DEF FirstWave, NextWave, planVars
<1>2. PICK st, done : Wave(st, done) /\ ((st = status /\ done = {} /\ pc = "start")
                                         \/ (st = Recorded /\ done = executed \cup batch /\ pc = "gather" /\ BatchEnded))
  BY DEF FirstWave, NextWave
<1>3. \A s \in Step : sub[s] \notin {"created", "trying"}
  BY <1>2 DEF IInv, Gathered, BatchEnded, Alive
<1>4. CASE pc' = "end" 
  <2>1. verdict' \in {"success", "failed"} /\ sub' = sub
    BY <1>2, <1>4 DEF Wave, Output
  <2>2. QED
    BY <1>1, <1>3, <1>4, <2>1 DEF FirstRun, Acyclic
<1>5. CASE pc' # "end"
  <2> DEFINE skip == SkipSet(st, done)
  <2>1. PICK B \in SUBSET Ready(done \cup skip) :
            /\ sub' = [s \in Step |-> IF s \in B THEN "created" ELSE sub[s]]
            /\ status' = [s \in Step |-> IF s \in skip THEN "skipped" ELSE st[s]]
            /\ pc' = "gather" /\ verdict' = verdict
    BY <1>2, <1>5 DEF Wave, Output
  <2>2. ASSUME runs = 1, NEW s \in Step, sub'[s] \in {"created", "trying"} PROVE status'[s] = "pending"
    <3>1. s \in B
      BY <1>3, <2>1, <2>2
    <3>2. s \notin skip /\ s \notin done
      BY <2>1, <3>1 DEF Ready
    <3>3. status'[s] = st[s]
      BY <2>1, <3>2
    <3>4. s \notin batch \/ pc = "start"
      BY <1>2, <3>2
    <3>5. (batch = {} /\ executed = {}) \/ pc # "start"
      BY DEF IInv, Gathered
    <3>6. s \notin executed \cup batch
      BY <1>2, <3>2, <3>5
    <3>7. st[s] = status[s]
      BY <1>2, <3>6 DEF Recorded
    <3>8. status[s] = "pending"
      BY <1>1, <2>2, <3>6 DEF IInv, Fresh, Stale
    <3>9. QED
      BY <3>3, <3>7, <3>8
  <2>3. QED
    BY <1>1, <2>1, <2>2 DEF FirstRun, Acyclic
<1>6. QED
  BY <1>4, <1>5

LEMMA NextFirstRun == IInv /\ FirstRun /\ [Next]_vars => FirstRun'
<1> SUFFICES ASSUME IInv, FirstRun, [Next]_vars PROVE FirstRun'
  OBVIOUS
<1>1. CASE FirstWave \/ NextWave
  BY <1>1, WaveFirstRun
<1>2. CASE FinishCancel \/ Return \/ CallerCancels \/ Terminated \/ UNCHANGED vars
  BY <1>2 DEF FinishCancel, Return, CallerCancels, Terminated, vars, planVars, FirstRun, Acyclic
<1>3. ASSUME NEW s \in Step, Subtask(s) PROVE FirstRun'
  <2>1. UNCHANGED <<dependsOn, subtasks, runs, pc, verdict>>
    BY <1>3 DEF Subtask, StartSubtask, AgentFails, TryNext, AgentSucceeds, HandoffRouted, SubtaskRaises, planVars
  <2>2. \A t \in Step : sub'[t] \in {"created", "trying"} =>
            sub[t] \in {"created", "trying"} /\ status'[t] = status[t]
    <3>1. CASE StartSubtask(s) \/ AgentFails(s)
      <4>1. PICK n : TryNext(s, n)
        BY <3>1 DEF StartSubtask, AgentFails
      <4>2. QED
        BY <3>1, <4>1 DEF TryNext, StartSubtask, AgentFails, IInv, TypeOK
    <3>2. CASE AgentSucceeds(s) \/ HandoffRouted(s) \/ SubtaskRaises(s)
      BY <3>2 DEF AgentSucceeds, HandoffRouted, SubtaskRaises, IInv, TypeOK
    <3>3. QED
      BY <1>3, <3>1, <3>2 DEF Subtask
  <2>3. QED
    BY <2>1, <2>2 DEF FirstRun, Acyclic
<1>4. ASSUME NEW P \in (SUBSET Step) \ {{}}, NextRun(P) PROVE FirstRun'
  <2>1. runs' > 1 /\ (pc' = "start" => verdict' = "none") /\ (pc' = "end" => verdict' = "failed")
        /\ pc' \in {"start", "end"}
    BY <1>4 DEF NextRun, IInv, TypeOK
  <2>2. QED
    BY <2>1 DEF FirstRun
<1>5. QED
  BY <1>1, <1>2, <1>3, <1>4 DEF Next, Scheduler

\* The abstract module's own copy of Cardinality is the same operator.
LEMMA SameCardinality ==
  ASSUME NEW T PROVE Run!Cardinality(T) = Cardinality(T)
BY DEF Run!Cardinality, Cardinality, Run!IsFiniteSet, IsFiniteSet

\* What the abstract run sees when und of the started or skipped subtasks dn are under way.
View(D, S, R, dn, und) ==
    [s \in S |-> IF s \in und THEN "running"
                 ELSE IF s \in dn THEN IF R[s] = "skipped" THEN "blocked" ELSE R[s]
                 ELSE IF s \in SkipOf(D, S, R, dn) THEN "blocked" ELSE "pending"]

\* Started and skipped subtasks have a status once they are decided, all others none.
Seen(D, S, R, dn, und) ==
    /\ und \subseteq dn /\ dn \subseteq S /\ \A s \in S : D[s] \subseteq S
    /\ \A s \in dn \ und : R[s] \in {"success", "failed", "skipped"}
    /\ \A s \in S : s \in und \/ s \notin dn => R[s] = "pending"

\* A wave starts B: all of it was pending, and nothing else changes.
LEMMA ViewStart ==
  ASSUME NEW D, NEW S, NEW R, NEW dn, Seen(D, S, R, dn, {}),
         NEW skip, skip = SkipOf(D, S, R, dn),
         NEW R1, \A s \in S : R1[s] = IF s \in skip THEN "skipped" ELSE R[s],
         NEW B, B \subseteq S \ (dn \cup skip)
  PROVE  /\ \A s \in B : View(D, S, R, dn, {})[s] = "pending"
         /\ View(D, S, R1, (dn \cup skip) \cup B, B)
              = [s \in S |-> IF s \in B THEN "running" ELSE View(D, S, R, dn, {})[s]]
<1> DEFINE all == dn \cup skip
           V == View(D, S, R, dn, {})
           W == View(D, S, R1, all \cup B, B)
<1>1. /\ skip \subseteq S \ dn
      /\ \A s \in S \ dn : (\E d \in D[s] : R[d] \in Blocking \/ d \in skip) => s \in skip
  BY SkipOfFacts
<1>2. SkipOf(D, S, R1, all \cup B) \subseteq {}
  <2>1. \A s \in S \ (all \cup B) : \A d \in D[s] : R1[d] \notin Blocking
    <3> SUFFICES ASSUME NEW s \in S \ (all \cup B), NEW d \in D[s] PROVE R1[d] \notin Blocking
      OBVIOUS
    <3>1. d \in S /\ R[d] \notin Blocking /\ d \notin skip
      BY <1>1 DEF Seen
    <3>2. QED
      BY <3>1
  <2>2. QED
    BY <2>1, SkipOfLeast
<1>3. \A s \in S : V[s] = IF s \in dn THEN IF R[s] = "skipped" THEN "blocked" ELSE R[s]
                          ELSE IF s \in skip THEN "blocked" ELSE "pending"
  BY DEF View
<1>4. \A s \in S : W[s] = IF s \in B THEN "running"
                          ELSE IF s \in all THEN IF R1[s] = "skipped" THEN "blocked" ELSE R1[s]
                          ELSE "pending"
  BY <1>2 DEF View
<1>5. W = [s \in S |-> W[s]]
  BY DEF View
<1> HIDE DEF V, W
<1>6. \A s \in S : W[s] = IF s \in B THEN "running" ELSE V[s]
  BY <1>1, <1>3, <1>4
<1>7. \A s \in B : V[s] = "pending"
  BY <1>3
<1>8. QED
  BY <1>5, <1>6, <1>7 DEF V, W

\* A wave that finds nothing to start leaves everything decided.
LEMMA ViewDecide ==
  ASSUME NEW D, NEW S, NEW R, NEW dn, Seen(D, S, R, dn, {}),
         NEW skip, skip = SkipOf(D, S, R, dn), dn \cup skip = S,
         NEW R1, \A s \in S : R1[s] = IF s \in skip THEN "skipped" ELSE R[s]
  PROVE  /\ View(D, S, R1, S, {}) = View(D, S, R, dn, {})
         /\ \A s \in S : View(D, S, R, dn, {})[s] \in {"success", "failed", "blocked"}
         /\ \A s \in S : View(D, S, R, dn, {})[s] = "success" <=> R1[s] = "success"
<1> DEFINE V == View(D, S, R, dn, {})
           W == View(D, S, R1, S, {})
<1>1. skip \subseteq S \ dn
  BY SkipOfFacts
<1>2. \A s \in S : V[s] = IF s \in dn THEN IF R[s] = "skipped" THEN "blocked" ELSE R[s] ELSE "blocked"
  BY DEF View
<1>3. \A s \in S : W[s] = IF R1[s] = "skipped" THEN "blocked" ELSE R1[s]
  BY DEF View
<1>4. W = [s \in S |-> W[s]] /\ V = [s \in S |-> V[s]]
  BY DEF View
<1> HIDE DEF V, W
<1>5. \A s \in S : W[s] = V[s]
  BY <1>1, <1>2, <1>3
<1>6. \A s \in S : V[s] \in {"success", "failed", "blocked"} /\ (V[s] = "success" <=> R1[s] = "success")
  BY <1>1, <1>2 DEF Seen
<1>7. V = W
  BY <1>4, <1>5
<1>8. QED
  BY <1>6, <1>7 DEF V, W

\* The view V becomes W when x is decided, as the abstract Settle says.
SettledView(D, S, V, W, x) ==
    \A s \in S : W[s] = IF s = x THEN W[x]
                       ELSE IF V[s] = "pending" /\ \E d \in D[s] : W[d] \in {"failed", "blocked"}
                            THEN "blocked" ELSE V[s]

\* A coroutine decides the status of x: what depends on a failure is blocked with it.
LEMMA ViewSettle ==
  ASSUME NEW D, NEW S, NEW R, NEW dn, NEW und, Seen(D, S, R, dn, und), NEW x \in und,
         NEW Q, Q[x] \in {"success", "failed"}, \A s \in S : s # x => Q[s] = R[s]
  PROVE  /\ View(D, S, R, dn, und)[x] = "running" /\ View(D, S, Q, dn, und \ {x})[x] = Q[x]
         /\ SettledView(D, S, View(D, S, R, dn, und), View(D, S, Q, dn, und \ {x}), x)
<1> DEFINE V == View(D, S, R, dn, und)
           W == View(D, S, Q, dn, und \ {x})
           skip == SkipOf(D, S, R, dn)
           skip2 == SkipOf(D, S, Q, dn)
<1>1. /\ skip \subseteq S \ dn
      /\ \A s \in S \ dn : (\E d \in D[s] : R[d] \in Blocking \/ d \in skip) => s \in skip
  BY SkipOfFacts
<1>2. /\ skip2 \subseteq S \ dn
      /\ \A s \in S \ dn : (\E d \in D[s] : Q[d] \in Blocking \/ d \in skip2) => s \in skip2
      /\ \A s \in skip2 : \E d \in D[s] : Q[d] \in Blocking \/ d \in skip2
  BY SkipOfFacts
<1>3. \A s \in S : V[s] = IF s \in und THEN "running"
                          ELSE IF s \in dn THEN IF R[s] = "skipped" THEN "blocked" ELSE R[s]
                          ELSE IF s \in skip THEN "blocked" ELSE "pending"
  BY DEF View
<1>4. \A s \in S : W[s] = IF s \in und \ {x} THEN "running"
                          ELSE IF s \in dn THEN IF Q[s] = "skipped" THEN "blocked" ELSE Q[s]
                          ELSE IF s \in skip2 THEN "blocked" ELSE "pending"
  BY DEF View
<1>5. x \in S /\ x \in dn /\ R[x] = "pending"
  BY DEF Seen
<1>6. skip \subseteq skip2
  <2>1. \A d \in S : R[d] \in Blocking => Q[d] \in Blocking
    BY <1>5 DEF Blocking
  <2>2. \A s \in S \ dn : (\E d \in D[s] : R[d] \in Blocking \/ d \in skip2) => s \in skip2
    BY <1>2, <2>1 DEF Seen
  <2> HIDE DEF skip2
  <2>3. QED
    BY <1>2, <2>2, SkipOfLeast
<1> HIDE DEF skip, skip2, V, W
<1>7. \A d \in S : W[d] \in {"failed", "blocked"} <=> Q[d] \in Blocking \/ d \in skip2
  <2> SUFFICES ASSUME NEW d \in S
               PROVE  W[d] \in {"failed", "blocked"} <=> Q[d] \in Blocking \/ d \in skip2
    OBVIOUS
  <2>1. CASE d \in und \ {x}
    BY <1>2, <1>4, <2>1 DEF Seen, Blocking
  <2>2. CASE d \in dn /\ d \notin und \ {x}
    BY <1>2, <1>4, <2>2 DEF Seen, Blocking
  <2>3. CASE d \notin dn
    BY <1>2, <1>4, <1>5, <2>3 DEF Seen, Blocking
  <2>4. QED
    BY <2>1, <2>2, <2>3
<1>8. V[x] = "running" /\ W[x] = Q[x]
  BY <1>3, <1>4, <1>5
<1>9. ASSUME NEW s \in S \ {x}
      PROVE  W[s] = IF V[s] = "pending" /\ \E d \in D[s] : W[d] \in {"failed", "blocked"}
                    THEN "blocked" ELSE V[s]
  <2>1. CASE s \in und
    BY <1>3, <1>4, <2>1
  <2>2. CASE s \in dn \ und
    BY <1>3, <1>4, <2>2 DEF Seen
  <2>3. CASE s \notin dn
    <3>1. s \notin und
      BY <2>3 DEF Seen
    <3>2. (\E d \in D[s] : W[d] \in {"failed", "blocked"}) <=> s \in skip2
      BY <1>2, <1>7, <2>3 DEF Seen
    <3>3. V[s] = (IF s \in skip THEN "blocked" ELSE "pending") /\ W[s] = (IF s \in skip2 THEN "blocked" ELSE "pending")
      BY <1>3, <1>4, <2>3, <3>1
    <3>4. QED
      BY <1>6, <3>2, <3>3
  <2>4. QED
    BY <2>1, <2>2, <2>3
<1>10. QED
  BY <1>8, <1>9 DEF SettledView, V, W

Done == executed \cup batch
Underway == {s \in batch : sub[s] \in {"created", "trying"}}
Abstract == [s \in FirstPlan |-> StepStatus(s)]

\* The first run is under way, or has just ended.
Running == IInv /\ FirstRun /\ runs = 1 /\ pc \in {"start", "gather", "cancelling", "end"}

\* What the abstract run sees of it.
Mapped ==
    /\ Seen(dependsOn, FirstPlan, Recorded, Done, Underway)
    /\ Abstract = View(dependsOn, FirstPlan, Recorded, Done, Underway)

LEMMA MappedRun == Running => Mapped
<1> SUFFICES ASSUME Running PROVE Mapped
  OBVIOUS
<1>0. IInv /\ FirstRun /\ runs = 1 /\ pc \in {"start", "gather", "cancelling", "end"}
  BY DEF Running
<1>1. /\ subtasks = FirstPlan /\ FirstPlan \subseteq Step /\ Acyclic(dependsOn, FirstPlan)
      /\ Done \subseteq FirstPlan /\ Underway \subseteq Done
  BY <1>0, OrchestratorAssumption DEF FirstRun, IInv, Gathered, Done, Underway
<1>2. \A s \in Step : Recorded[s] = IF s \in batch /\ sub[s] = "raised" THEN "failed" ELSE status[s]
  BY DEF Recorded
<1>3. \A s \in FirstPlan \ Done : status[s] = "pending"
  <2>1. CASE pc = "end"
    BY <1>0, <1>1, <2>1 DEF IInv, NothingUnscheduled, Done
  <2>2. CASE pc # "end"
    BY <1>0, <1>1, <2>2 DEF IInv, Fresh, Stale, Done
  <2>3. QED
    BY <2>1, <2>2
<1>4. \A s \in Underway : s \in Step /\ s \in batch /\ sub[s] # "raised" /\ status[s] = "pending"
  BY <1>0, <1>1 DEF FirstRun, Underway
<1>5. ASSUME NEW s \in Done \ Underway PROVE Recorded[s] \in {"success", "failed", "skipped"}
  <2>1. s \in Step
    BY <1>1
  <2>2. CASE s \in batch
    <3>1. sub[s] \in {"handoff", "done", "raised"}
      BY <1>0, <2>1, <2>2, <1>5 DEF IInv, Gathered, TypeOK, Underway, Started, Alive
    <3>2. QED
      BY <1>0, <1>2, <2>1, <2>2, <3>1 DEF IInv, Reported
  <2>3. CASE s \in executed /\ s \notin batch
    BY <1>0, <1>2, <2>1, <2>3 DEF IInv, Reported
  <2>4. QED
    BY <2>2, <2>3 DEF Done
<1>6. \A s \in FirstPlan : s \in Underway \/ s \notin Done => Recorded[s] = "pending"
  BY <1>1, <1>2, <1>3, <1>4 DEF Done
<1>7. Seen(dependsOn, FirstPlan, Recorded, Done, Underway)
  BY <1>1, <1>5, <1>6 DEF Seen, Acyclic
<1>8. ASSUME NEW s \in FirstPlan
      PROVE  StepStatus(s) = View(dependsOn, FirstPlan, Recorded, Done, Underway)[s]
  <2> DEFINE skip == SkipOf(dependsOn, FirstPlan, Recorded, Done)
  <2>1. SkipSet(Recorded, executed \cup batch) = skip
    BY <1>1 DEF SkipSet, SkipOf, Done
  <2>2. skip \subseteq FirstPlan \ Done
    BY SkipOfFacts
  <2>3. View(dependsOn, FirstPlan, Recorded, Done, Underway)[s] =
            IF s \in Underway THEN "running"
            ELSE IF s \in Done THEN IF Recorded[s] = "skipped" THEN "blocked" ELSE Recorded[s]
            ELSE IF s \in skip THEN "blocked" ELSE "pending"
    BY DEF View
  <2>4. StepStatus(s) = IF s \in Underway THEN "running"
                        ELSE IF Recorded[s] = "skipped" \/ s \in skip THEN "blocked" ELSE Recorded[s]
    BY <2>1 DEF StepStatus, Settled, Underway
  <2> HIDE DEF skip
  <2>5. QED
    BY <1>6, <2>2, <2>3, <2>4
<1>9. Abstract = View(dependsOn, FirstPlan, Recorded, Done, Underway)
  BY <1>8 DEF Abstract, View
<1>10. QED
  BY <1>7, <1>9 DEF Mapped

LEMMA MappedNext == Running' => Mapped'
BY MappedRun, PTL

\* Under the mapping a step is invisible when the view does not change.
LEMMA Invisible ==
  ASSUME Mapped, Mapped', UNCHANGED <<dependsOn, verdict>>,
         \A s \in FirstPlan : Recorded'[s] = Recorded[s],
         Done' = Done, Underway' = Underway,
         pc \notin {"returned", "raised"}, pc' \notin {"returned", "raised"}
  PROVE  UNCHANGED Run!vars
<1>1. PICK D, R, Q, dn, und : D = dependsOn /\ R = Recorded /\ Q = Recorded' /\ dn = Done /\ und = Underway
  OBVIOUS
<1>2. SkipOf(D, FirstPlan, R, dn) = SkipOf(D, FirstPlan, Q, dn)
  <2>1. \A s \in FirstPlan : D[s] \subseteq FirstPlan /\ R[s] = Q[s]
    BY <1>1 DEF Mapped, Seen
  <2>2. QED
    BY <2>1 DEF SkipOf
<1>3. View(D, FirstPlan, R, dn, und) = View(D, FirstPlan, Q, dn, und)
  <2>1. \A s \in FirstPlan : R[s] = Q[s]
    BY <1>1
  <2>2. QED
    BY <1>2, <2>1 DEF View
<1>4. Abstract' = Abstract
  BY <1>1, <1>3 DEF Mapped
<1>5. QED
  BY <1>4 DEF Run!vars, Abstract

\* A coroutine that decides its subtask's status is the abstract Settle.
LEMMA Settles ==
  ASSUME Running, Running', UNCHANGED <<dependsOn, verdict>>,
         NEW x \in Underway, NEW v \in {"success", "failed"},
         \A s \in FirstPlan : Recorded'[s] = IF s = x THEN v ELSE Recorded[s],
         Done' = Done, Underway' = Underway \ {x}, pc \in {"gather", "cancelling"}, pc' = pc
  PROVE  x \in FirstPlan /\ Run!Settle(x)
<1>1. Mapped /\ Mapped' /\ verdict = "none"
  BY MappedRun, MappedNext DEF Running, FirstRun
<1>2. PICK D, R, Q, dn, und, V, W :
         /\ D = dependsOn /\ R = Recorded /\ Q = Recorded' /\ dn = Done /\ und = Underway
         /\ V = Abstract /\ W = Abstract'
  OBVIOUS
<1>3. /\ Seen(D, FirstPlan, R, dn, und) /\ V = View(D, FirstPlan, R, dn, und)
      /\ W = View(D, FirstPlan, Q, dn, und \ {x})
  BY <1>1, <1>2 DEF Mapped
<1>4. x \in und /\ x \in FirstPlan /\ Q[x] \in {"success", "failed"} /\ \A s \in FirstPlan : s # x => Q[s] = R[s]
  BY <1>2, <1>3 DEF Seen
<1>5. V[x] = "running" /\ W[x] \in {"success", "failed"} /\ SettledView(D, FirstPlan, V, W, x)
  BY <1>3, <1>4, ViewSettle
<1>6. W = [s \in FirstPlan |-> W[s]]
  BY <1>3 DEF View
<1>7. x \in FirstPlan /\ \A s \in FirstPlan : D[s] \subseteq FirstPlan
  BY <1>3, <1>4 DEF Seen
<1> DEFINE E == [s \in FirstPlan |-> dependsOn[s]]
<1>8. W = [s \in FirstPlan |->
              IF s = x THEN W[x]
              ELSE IF V[s] = "pending" /\ \E d \in E[s] : W[d] \in {"failed", "blocked"}
                   THEN "blocked" ELSE V[s]]
  BY <1>2, <1>5, <1>6 DEF SettledView
<1>9. E' = E
  OBVIOUS
<1>10. QED
  BY <1>1, <1>2, <1>5, <1>7, <1>8, <1>9 DEF Run!Settle, Run!Active, Run!Passed, Run!Blocked, Abstract

LEMMA SubtaskRefines ==
  ASSUME Running, Running', NEW x \in Step, Subtask(x)
  PROVE  [Run!Next]_(Run!vars)
<1>1. /\ IInv /\ FirstRun /\ TypeOK
      /\ UNCHANGED <<dependsOn, verdict, executed, batch, pc>>
  BY DEF Running, IInv, Subtask, StartSubtask, AgentFails, TryNext, AgentSucceeds, HandoffRouted,
         SubtaskRaises, planVars
<1>2. Done' = Done /\ Mapped /\ Mapped' /\ FirstPlan \subseteq Step
  BY <1>1, MappedRun, MappedNext, OrchestratorAssumption DEF Done
<1>3. x \in batch /\ pc \in {"gather", "cancelling"} /\ sub[x] \in Alive
  BY <1>1 DEF IInv, Gathered, Subtask, StartSubtask, AgentFails, AgentSucceeds, HandoffRouted,
              SubtaskRaises, Alive
<1>4. \A s \in Step : /\ Recorded[s] = IF s \in batch /\ sub[s] = "raised" THEN "failed" ELSE status[s]
                      /\ Recorded'[s] = IF s \in batch /\ sub'[s] = "raised" THEN "failed" ELSE status'[s]
  BY <1>1 DEF Recorded
<1>5. \A s \in Step \ {x} : sub'[s] = sub[s] /\ status'[s] = status[s]
  <2>1. CASE StartSubtask(x) \/ AgentFails(x)
    <3>1. PICK n : TryNext(x, n)
      BY <2>1 DEF StartSubtask, AgentFails
    <3>2. QED
      BY <1>1, <3>1 DEF TryNext, TypeOK
  <2>2. CASE AgentSucceeds(x) \/ HandoffRouted(x) \/ SubtaskRaises(x)
    BY <1>1, <2>2 DEF AgentSucceeds, HandoffRouted, SubtaskRaises, TypeOK
  <2>3. QED
    BY <2>1, <2>2 DEF Subtask
<1>6. \/ x \in Underway /\ sub'[x] = "trying" /\ status'[x] = status[x]
      \/ x \in Underway /\ sub'[x] \in {"handoff", "done"} /\ status'[x] \in {"success", "failed"}
      \/ x \in Underway /\ sub'[x] = "raised"
      \/ sub[x] = "handoff" /\ sub'[x] \in {"done", "raised"} /\ status'[x] = status[x] /\ status[x] = "failed"
  <2>1. CASE StartSubtask(x) \/ AgentFails(x)
    <3>1. PICK n : TryNext(x, n)
      BY <2>1 DEF StartSubtask, AgentFails
    <3>2. x \in Underway
      BY <1>3, <2>1 DEF StartSubtask, AgentFails, Underway
    <3>3. QED
      BY <1>1, <3>1, <3>2 DEF TryNext, TypeOK
  <2>2. CASE AgentSucceeds(x)
    BY <1>1, <1>3, <2>2 DEF AgentSucceeds, TypeOK, Underway
  <2>3. CASE HandoffRouted(x)
    BY <1>1, <2>3 DEF HandoffRouted, TypeOK, IInv, Reported
  <2>4. CASE SubtaskRaises(x)
    <3>1. sub'[x] = "raised" /\ status'[x] = status[x]
      BY <1>1, <2>4 DEF SubtaskRaises, TypeOK
    <3>2. sub[x] = "handoff" => status[x] = "failed"
      BY <1>1 DEF IInv, Reported
    <3>3. QED
      BY <1>3, <2>4, <3>1, <3>2 DEF SubtaskRaises, Underway
  <2>5. QED
    BY <2>1, <2>2, <2>3, <2>4 DEF Subtask
<1>7. Underway' = IF sub'[x] \in {"created", "trying"} THEN Underway \cup {x} ELSE Underway \ {x}
  <2>1. \A s \in batch : s \in Step
    BY <1>1 DEF TypeOK
  <2>2. QED
    BY <1>1, <1>3, <1>5, <2>1 DEF Underway
<1>8. \A s \in FirstPlan : s # x => Recorded'[s] = Recorded[s]
  BY <1>2, <1>4, <1>5
<1>9. ASSUME NEW v \in {"success", "failed"}, Recorded'[x] = v, x \in Underway,
             sub'[x] \notin {"created", "trying"}
      PROVE  Run!Next
  <2>1. \A s \in FirstPlan : Recorded'[s] = IF s = x THEN v ELSE Recorded[s]
    BY <1>8, <1>9
  <2>2. Underway' = Underway \ {x}
    BY <1>7, <1>9
  <2>3. x \in FirstPlan /\ Run!Settle(x)
    BY <1>1, <1>2, <1>3, <1>9, <2>1, <2>2, Settles
  <2>4. QED
    BY <2>3 DEF Run!Next
<1>10. CASE x \in Underway /\ sub'[x] = "trying" /\ status'[x] = status[x]
  <2>1. Recorded'[x] = Recorded[x]
    BY <1>4, <1>10 DEF Underway
  <2>2. Underway' = Underway
    BY <1>7, <1>10
  <2>3. \A s \in FirstPlan : Recorded'[s] = Recorded[s]
    BY <1>8, <2>1
  <2>4. QED
    BY <1>1, <1>2, <1>3, <2>2, <2>3, Invisible
<1>11. CASE x \in Underway /\ sub'[x] \in {"handoff", "done"} /\ status'[x] \in {"success", "failed"}
  BY <1>4, <1>9, <1>11
<1>12. CASE x \in Underway /\ sub'[x] = "raised"
  BY <1>3, <1>4, <1>9, <1>12
<1>13. CASE sub[x] = "handoff" /\ sub'[x] \in {"done", "raised"} /\ status'[x] = status[x] /\ status[x] = "failed"
  <2>1. Recorded'[x] = Recorded[x]
    BY <1>4, <1>13
  <2>2. Underway' = Underway
    BY <1>7, <1>13 DEF Underway
  <2>3. \A s \in FirstPlan : Recorded'[s] = Recorded[s]
    BY <1>8, <2>1
  <2>4. QED
    BY <1>1, <1>2, <1>3, <2>2, <2>3, Invisible
<1>14. QED
  BY <1>6, <1>10, <1>11, <1>12, <1>13

\* A wave, seen abstractly: from the state before its skip pass.
LEMMA WaveRefines ==
  ASSUME Running, Running', pc \in {"start", "gather"}, BatchEnded,
         Wave(Recorded, Done), UNCHANGED <<planVars, left>>
  PROVE  Run!Start \/ Run!Decide
<1>1. /\ IInv /\ IInv' /\ FirstRun /\ Mapped /\ Mapped' /\ verdict = "none" /\ dependsOn' = dependsOn
      /\ subtasks = FirstPlan /\ subtasks' = FirstPlan /\ FirstPlan \subseteq Step
      /\ Acyclic(dependsOn, FirstPlan)
  BY MappedRun, MappedNext, OrchestratorAssumption DEF Running, FirstRun, planVars
<1>2. Underway = {}
  BY DEF BatchEnded, Underway, Alive
<1>3. PICK D, R, Q, dn, V, W :
         /\ D = dependsOn /\ R = Recorded /\ Q = Recorded' /\ dn = Done
         /\ V = Abstract /\ W = Abstract'
  OBVIOUS
<1>4. Seen(D, FirstPlan, R, dn, {}) /\ V = View(D, FirstPlan, R, dn, {})
  BY <1>1, <1>2, <1>3 DEF Mapped
<1> DEFINE skip == SkipOf(D, FirstPlan, R, dn)
           all == dn \cup skip
           E == [s \in FirstPlan |-> dependsOn[s]]
<1>5. SkipSet(Recorded, Done) = skip
  BY <1>1, <1>3 DEF SkipSet, SkipOf
<1>6. E' = E /\ E = [s \in FirstPlan |-> D[s]] /\ \A s \in FirstPlan : D[s] \subseteq FirstPlan
  BY <1>1, <1>3, <1>4 DEF Seen
<1> DEFINE st1 == [s \in Step |-> IF s \in skip THEN "skipped" ELSE R[s]]
<1>7. skip \subseteq FirstPlan \ dn
  BY SkipOfFacts
<1>8. executed' = all
  BY <1>3, <1>5 DEF Wave
<1>9. CASE Ready(all) = {}
  <2>1. Output(st1, all)
    BY <1>3, <1>5, <1>9 DEF Wave
  <2>2. /\ pc' = "end" /\ batch' = {}
        /\ status' = [s \in Step |-> IF s \in subtasks \ all THEN "failed" ELSE st1[s]]
    BY <2>1 DEF Output
  <2> HIDE DEF skip
  <2>3. all = FirstPlan
    BY <1>1, <1>8, <2>2 DEF IInv, NothingUnscheduled
  <2>4. \A s \in FirstPlan : status'[s] = IF s \in skip THEN "skipped" ELSE R[s]
    BY <1>1, <2>2, <2>3
  <2>5. Done' = FirstPlan /\ Underway' = {}
    BY <1>8, <2>2, <2>3 DEF Done, Underway
  <2>6. \A s \in FirstPlan : Q[s] = status'[s]
    BY <1>1, <1>3, <2>2 DEF Recorded
  <2>7. \A s \in FirstPlan : Q[s] = IF s \in skip THEN "skipped" ELSE R[s]
    BY <2>4, <2>6
  <2>8. W = View(D, FirstPlan, Q, FirstPlan, {})
    BY <1>1, <1>3, <2>5 DEF Mapped
  <2>9. /\ W = V
        /\ \A s \in FirstPlan : V[s] \in {"success", "failed", "blocked"}
        /\ \A s \in FirstPlan : V[s] = "success" <=> Q[s] = "success"
    <3>1. skip = SkipOf(D, FirstPlan, R, dn) /\ dn \cup skip = FirstPlan
      BY <2>3 DEF skip
    <3>2. QED
      BY <1>4, <2>7, <2>8, <3>1, ViewDecide
  <2>10. verdict' = IF \A s \in FirstPlan : V[s] = "success" THEN "success" ELSE "failed"
    <3>1. verdict' = "success" <=> \A s \in FirstPlan : status'[s] = "success"
      BY <1>1, <2>2 DEF IInv, NothingUnscheduled
    <3>2. verdict' \in {"success", "failed"}
      BY <2>2 DEF Running, FirstRun
    <3>3. QED
      BY <2>6, <2>9, <3>1, <3>2
  <2>11. Run!Decide
    <3>1. \A s \in FirstPlan : V[s] \in {"success", "condition"} <=> V[s] = "success"
      BY <2>9
    <3>2. QED
      BY <1>1, <1>3, <1>6, <2>2, <2>9, <2>10, <3>1
         DEF Run!Decide, Run!Active, Run!Passed, Run!Blocked, Abstract
  <2>12. QED
    BY <2>11
<1>10. CASE Ready(all) # {}
  <2>1. PICK B \in SUBSET Ready(all) :
           /\ batch' = B /\ sub' = [s \in Step |-> IF s \in B THEN "created" ELSE sub[s]]
           /\ status' = st1 /\ pc' = "gather" /\ verdict' = verdict
    BY <1>3, <1>5, <1>10 DEF Wave
  <2>2. B \subseteq FirstPlan \ all /\ \A s \in B : D[s] \subseteq all
    BY <1>1, <1>3, <2>1 DEF Ready
  <2> HIDE DEF skip
  <2>3. Done' = all \cup B /\ Underway' = B
    BY <1>1, <1>8, <2>1, <2>2 DEF Done, Underway
  <2>4. \A s \in FirstPlan : Q[s] = IF s \in skip THEN "skipped" ELSE R[s]
    BY <1>1, <1>3, <2>1, <2>2 DEF Recorded
  <2>5. W = View(D, FirstPlan, Q, all \cup B, B)
    BY <1>1, <1>3, <2>3 DEF Mapped
  <2>6. /\ \A s \in B : V[s] = "pending"
        /\ W = [s \in FirstPlan |-> IF s \in B THEN "running" ELSE V[s]]
    <3>1. skip = SkipOf(D, FirstPlan, R, dn) /\ B \subseteq FirstPlan \ (dn \cup skip)
      BY <2>2 DEF skip
    <3>2. QED
      BY <1>4, <2>4, <2>5, <3>1, ViewStart
  <2>7. \A s \in B : \A d \in D[s] : V[d] = "success"
    <3> SUFFICES ASSUME NEW s \in B, NEW d \in D[s] PROVE V[d] = "success"
      OBVIOUS
    <3>1. s \in Step /\ s \in batch' /\ d \in FirstPlan /\ d \in all /\ d \notin B
      BY <1>1, <1>6, <2>1, <2>2
    <3>2. sub'[s] # "none"
      BY <1>1, <3>1 DEF IInv, Gathered, Started
    <3>3. status'[d] = "success"
      BY <1>1, <1>3, <3>1, <3>2 DEF IInv, AfterSuccess, Started
    <3>4. d \notin skip /\ R[d] = "success"
      BY <1>1, <2>1, <3>1, <3>3
    <3>5. d \in dn
      BY <3>1, <3>4
    <3>6. QED
      BY <1>4, <3>1, <3>4, <3>5 DEF View
  <2>8. {s \in FirstPlan : V[s] = "running"} = {}
    BY <1>4 DEF View, Seen
  <2>9. Cardinality(B \cup {s \in FirstPlan : V[s] = "running"}) <= MaxParallel
    <3>1. B \cup {s \in FirstPlan : V[s] = "running"} = B
      BY <2>8
    <3>2. Cardinality(B) <= MaxParallel
      BY <1>1, <2>1 DEF IInv, Gathered
    <3>3. QED
      BY <3>1, <3>2
  <2>10. B \in SUBSET {s \in FirstPlan : V[s] = "pending"}
    BY <2>2, <2>6
  <2>11. \A s \in B : \A d \in E[s] : V[d] \in {"success", "condition"}
    BY <1>6, <2>2, <2>7
  <2> DEFINE st == [s \in FirstPlan |-> StepStatus(s)]
  <2>12. Run!Start
    <3>1. V = st /\ W = st'
      BY <1>3 DEF Abstract
    <3>2. B \in SUBSET {s \in FirstPlan : st[s] = "pending"}
      BY <2>10, <3>1
    <3>3. \A s \in B : \A d \in E[s] : st[d] \in {"success", "condition"}
      BY <2>11, <3>1
    <3>4. Run!Cardinality(B \cup {s \in FirstPlan : st[s] = "running"}) <= MaxParallel
      BY <2>9, <3>1, SameCardinality
    <3>5. st' = [s \in FirstPlan |-> IF s \in B THEN "running" ELSE st[s]]
      BY <2>6, <3>1
    <3> HIDE DEF st
    <3>6. verdict' = "none" /\ verdict = "none" /\ pc' = "gather" /\ pc \in {"start", "gather"}
      BY <1>1, <2>1
    <3>7. QED
      BY <1>6, <3>2, <3>3, <3>4, <3>5, <3>6 DEF Run!Start, Run!Active, Run!Passed, st
  <2>13. QED
    BY <2>12
<1>11. QED
  BY <1>9, <1>10

LEMMA RunRefines ==
  ASSUME IInv, IInv', FirstRun, FirstRun', [Next]_vars, runs' = 1
  PROVE  [Run!Next]_(Run!vars)
<1> DEFINE Active == {"start", "gather", "cancelling", "end"}
<1>1. CASE Terminated \/ UNCHANGED vars
  <2>1. UNCHANGED vars
    BY <1>1 DEF Terminated
  <2>2. UNCHANGED <<dependsOn, subtasks, status, executed, batch, sub, pc, verdict>>
    BY <2>1 DEF vars
  <2>3. \A s \in FirstPlan : StepStatus(s)' = StepStatus(s)
    BY <2>2 DEF StepStatus, Settled, Recorded, SkipSet
  <2>4. QED
    BY <2>2, <2>3 DEF Run!vars
<1>2. CASE FirstWave \/ NextWave
  <2>1. /\ runs = 1 /\ pc \in {"start", "gather"} /\ pc' \in Active /\ UNCHANGED <<planVars, left>>
    BY <1>2 DEF FirstWave, NextWave, Wave, Output, planVars
  <2>2. Running /\ Running'
    BY <2>1 DEF Running
  <2>3. BatchEnded /\ Wave(Recorded, Done)
    <3>1. CASE FirstWave
      <4>1. batch = {} /\ executed = {} /\ pc = "start"
        BY <3>1 DEF FirstWave, IInv, Gathered
      <4>2. Recorded = status /\ Done = {}
        BY <4>1 DEF Recorded, Done, IInv, TypeOK
      <4>3. QED
        BY <3>1, <4>1, <4>2 DEF FirstWave, BatchEnded
    <3>2. CASE NextWave
      BY <3>2 DEF NextWave, Done
    <3>3. QED
      BY <1>2, <3>1, <3>2
  <2>4. QED
    BY <2>1, <2>2, <2>3, WaveRefines DEF Run!Next
<1>3. CASE CallerCancels
  <2>1. Running /\ Running'
    BY <1>3 DEF CallerCancels, planVars, Running
  <2>2. /\ UNCHANGED <<dependsOn, verdict, status, executed, batch, sub>>
        /\ pc = "gather" /\ pc' = "cancelling"
    BY <1>3 DEF CallerCancels, planVars
  <2>3. Recorded' = Recorded /\ Done' = Done /\ Underway' = Underway
    BY <2>2 DEF Recorded, Done, Underway
  <2>4. QED
    BY <2>1, <2>2, <2>3, MappedRun, MappedNext, Invisible
<1>4. CASE FinishCancel \/ Return
  <2>1. /\ UNCHANGED <<dependsOn, subtasks, verdict, status, executed, batch, sub>>
        /\ \/ pc = "cancelling" /\ pc' = "raised" /\ verdict = "none"
           \/ pc = "end" /\ pc' = "returned" /\ verdict # "none"
    BY <1>4 DEF FinishCancel, Return, planVars, FirstRun
  <2>2. \A s \in FirstPlan : StepStatus(s)' = StepStatus(s)
    BY <2>1 DEF StepStatus, Settled, Recorded, SkipSet
  <2>3. QED
    BY <2>1, <2>2 DEF Run!Next, Run!Cancel, Run!Return
<1>5. ASSUME NEW s \in Step, Subtask(s) PROVE [Run!Next]_(Run!vars)
  <2>1. runs = 1 /\ pc' = pc
    BY <1>5 DEF Subtask, StartSubtask, AgentFails, TryNext, AgentSucceeds, HandoffRouted,
                SubtaskRaises, planVars
  <2>2. pc \in {"gather", "cancelling"}
    BY <1>5 DEF IInv, Gathered, Subtask, StartSubtask, AgentFails, AgentSucceeds, HandoffRouted,
                SubtaskRaises, Alive
  <2>3. Running /\ Running'
    BY <2>1, <2>2 DEF Running
  <2>4. QED
    BY <1>5, <2>3, SubtaskRefines
<1>6. ASSUME NEW P \in (SUBSET Step) \ {{}}, NextRun(P) PROVE FALSE
  BY <1>6 DEF NextRun, IInv, TypeOK
<1>7. QED
  BY <1>1, <1>2, <1>3, <1>4, <1>5, <1>6 DEF Next, Scheduler

LEMMA InitRefines == Init => Run!Init
<1> SUFFICES ASSUME Init PROVE Run!Init
  OBVIOUS
<1>1. IInv /\ FirstRun /\ Running
  BY InitIInv, InitFirstRun DEF Running, Init
<1>2. Mapped
  BY <1>1, MappedRun
<1>3. Done = {} /\ Underway = {} /\ \A s \in Step : Recorded[s] = "pending"
  BY DEF Init, Done, Underway, Recorded
<1>4. SkipOf(dependsOn, FirstPlan, Recorded, {}) = {}
  <2>1. \A s \in FirstPlan : \A d \in dependsOn[s] : Recorded[d] \notin Blocking
    BY <1>1, <1>3, OrchestratorAssumption DEF IInv, TypeOK, Blocking
  <2>2. QED
    BY <2>1, SkipOfLeast
<1>5. Abstract = [s \in FirstPlan |-> "pending"]
  BY <1>2, <1>3, <1>4 DEF Mapped, View
<1>6. [s \in FirstPlan |-> dependsOn[s]] \in [FirstPlan -> SUBSET FirstPlan]
  BY <1>2 DEF Mapped, Seen
<1>7. QED
  BY <1>5, <1>6 DEF Run!Init, Init, Abstract

-----------------------------------------------------------------------------
(***************************************************************************)
(* Theorems.                                                               *)
(***************************************************************************)

\* For every plan, limit, chain of agents and number of runs: subtasks start after
\* their dependencies, for their own plan and within max_parallel, none is forgotten
\* by the verdict and none outlives its run (_execute_plan).
THEOREM SafeRuns == Spec => []RunSafe
BY Invariance, Parts, PTL

\* In the outcome of a run with its own plan the skipped subtasks are exactly those
\* with a failed or skipped dependency (_skip_blocked_subtasks).
THEOREM ExactSkips == Spec => []SkipsExact
BY Invariance, Parts, PTL

\* On every finite graph whose dependencies are all declared, _detect_cycles() raises
\* nothing exactly when there is no cycle, and raises a cycle.
THEOREM DetectsCycles ==
  ASSUME NEW D, NEW S, IsFiniteSet(S), NoneMissing(D, S)
  PROVE  /\ DetectCycle(D, S) = <<>> <=> Acyclic(D, S)
         /\ DetectCycle(D, S) # <<>> => IsCycle(DetectCycle(D, S), D)
BY DetectCycleFacts

\* On every finite graph without a cycle, get_execution_order() returns each step once,
\* after all that it depends on: it never raises.
THEOREM OrdersSteps ==
  ASSUME NEW D, NEW S, IsFiniteSet(S), Acyclic(D, S)
  PROVE  IsTopological(ExecutionOrder(D, S), D, S)
BY ExecutionOrderFacts

\* Every plan an agent registers, also one that earlier runs have added to, is executed
\* if and only if it has no cycle; the cycle that is reported is one, and Kahn's
\* algorithm orders what was accepted (_validate_plan).
THEOREM ValidatedPlans == Spec => []PlanValidated
<1>1. Spec => []Accepted
  BY InitAccepted, NextAccepted, Invariance, PTL DEF Spec
<1>2. QED
  BY <1>1, Invariance, AcceptedPlan, PTL

\* The first run of an orchestrator keeps the promises of WorkflowRun, for every plan,
\* limit and chain of agents: each of its steps is one of the abstract run or is
\* invisible to it (_execute_plan follows the rules of DAGExecutor).
THEOREM SecondScheduler == Spec => ImplementsRun
<1>1. Spec => []FirstRun
  BY InitFirstRun, NextFirstRun, Invariance, PTL DEF Spec
<1>2. IInv /\ IInv' /\ FirstRun /\ FirstRun' /\ [Next]_vars =>
        [runs' = 1 => [Run!Next]_(Run!vars)]_vars
  BY RunRefines
<1>3. QED
  BY <1>1, <1>2, InitRefines, Invariance, PTL DEF Spec, ImplementsRun
=============================================================================
