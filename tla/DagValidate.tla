----------------------------- MODULE DagValidate -----------------------------
(***************************************************************************)
(* engine/dag.py: DAG.validate() and DAG.get_execution_order() on the      *)
(* steps S, where D[s] is the set of steps that s depends on.              *)
(*                                                                         *)
(* Each loop is a function from the number of iterations to its state, and *)
(* stays where it ended.  The order of dictionaries and adjacency lists is *)
(* abstracted to an arbitrary fixed one (CHOOSE), and so is the order of   *)
(* the ready list: what the algorithms promise does not depend on it.  A   *)
(* repeated entry of depends_on is one more edge and one more in-degree,   *)
(* which cancel, so dependencies are a set.                                *)
(***************************************************************************)
EXTENDS Naturals, Sequences, FiniteSets

\* _build_adjacency_list: the steps of S that list s in depends_on.
Adjacency(D, S) == [s \in S |-> {x \in S : s \in D[x]}]

\* enter(): the node turns gray and is pushed with an iterator over its dependents.
Enter(dfs, node) ==
    [dfs EXCEPT !.color[node] = "gray", !.stack = Append(@, node)]

\* The gray nodes from the repeated one on, and that one again.
CyclePath(stack, node) ==
    LET start == CHOOSE i \in 1 .. Len(stack) : stack[i] = node
    IN  SubSeq(stack, start, Len(stack)) \o <<node>>

\* MUTANT of Look: a node that is not white counts as a back-edge.
LookTwoColours(dfs, neighbor) ==
    IF dfs.color[neighbor] = "white" THEN Enter(dfs, neighbor)
    ELSE [dfs EXCEPT !.cycle = CyclePath(Append(dfs.stack, neighbor), neighbor)]

\* The next dependent of the node on top: gray is a back-edge, white is entered.
Look(dfs, neighbor) ==
    CASE dfs.color[neighbor] = "gray"  -> [dfs EXCEPT !.cycle = CyclePath(dfs.stack, neighbor)]
      [] dfs.color[neighbor] = "white" -> Enter(dfs, neighbor)
      [] OTHER -> dfs

\* One iteration of the loops of _detect_cycles; `rest` are the iterators.
Visit(S, dfs) ==
    LET white == {s \in S : dfs.color[s] = "white"}
        node == dfs.stack[Len(dfs.stack)]
        neighbor == CHOOSE n \in dfs.rest[node] : TRUE
    IN  CASE dfs.cycle # <<>> \/ (dfs.stack = <<>> /\ white = {}) -> dfs
          [] dfs.cycle = <<>> /\ dfs.stack = <<>> /\ white # {} ->
                Enter(dfs, CHOOSE s \in white : TRUE)
          [] dfs.cycle = <<>> /\ dfs.stack # <<>> /\ dfs.rest[node] = {} ->
                [dfs EXCEPT !.color[node] = "black",
                            !.stack = SubSeq(@, 1, Len(@) - 1)]
          [] OTHER -> Look([dfs EXCEPT !.rest[node] = @ \ {neighbor}], neighbor)

\* Every step is entered and left once and every edge looked at once.
Iterations(S) == Cardinality(S) * (Cardinality(S) + 2)

\* _detect_cycles: the cycle it raises, or <<>>.
DetectCycle(D, S) ==
    LET dfs[i \in Nat] ==
            IF i = 0
            THEN [color |-> [s \in S |-> "white"], stack |-> <<>>,
                  rest |-> Adjacency(D, S), cycle |-> <<>>]
            ELSE Visit(S, dfs[i - 1])
    IN  dfs[Iterations(S)].cycle

\* _check_missing_dependencies raises nothing.
NoneMissing(D, S) == \A s \in S : D[s] \subseteq S

\* validate() raises nothing.
Validates(D, S) == S # {} /\ NoneMissing(D, S) /\ DetectCycle(D, S) = <<>>

\* One iteration of Kahn's algorithm.
Consume(D, S, kahn) ==
    LET current == CHOOSE s \in kahn.ready : TRUE
        dependents == Adjacency(D, S)[current]
        degree == [s \in S |-> IF s \in dependents THEN kahn.inDegree[s] - 1
                                                   ELSE kahn.inDegree[s]]
    IN  [inDegree |-> degree,
         ready |-> (kahn.ready \ {current}) \cup {s \in dependents : degree[s] = 0},
         order |-> Append(kahn.order, current)]

\* get_execution_order() after its validate(): the steps, or the part of them it
\* consumed before it ran out of ready ones, for which it raises.
ExecutionOrder(D, S) ==
    LET kahn[i \in Nat] ==
            IF i = 0
            THEN [inDegree |-> [s \in S |-> Cardinality(D[s])],
                  ready |-> {s \in S : D[s] = {}}, order |-> <<>>]
            ELSE IF kahn[i - 1].ready = {} THEN kahn[i - 1]
                                           ELSE Consume(D, S, kahn[i - 1])
    IN  kahn[Cardinality(S)].order

-----------------------------------------------------------------------------
(***************************************************************************)
(* What they are to compute.                                               *)
(***************************************************************************)

\* Dependencies name steps of S, and every set of steps has one that depends on
\* none of them: there is no cycle.
Acyclic(D, S) ==
    /\ \A s \in S : D[s] \subseteq S
    /\ \A X \in SUBSET S : X # {} => \E x \in X : D[x] \cap X = {}

\* A closed path along dependencies that repeats no step but its first.
IsCycle(path, D) ==
    /\ Len(path) > 1 /\ path[1] = path[Len(path)]
    /\ \A i \in 1 .. Len(path) - 1 : path[i] \in D[path[i + 1]]
    /\ \A i, j \in 1 .. Len(path) - 1 : path[i] = path[j] => i = j

\* Each step once, after everything it depends on.
IsTopological(order, D, S) ==
    /\ Len(order) = Cardinality(S) /\ {order[i] : i \in 1 .. Len(order)} = S
    /\ \A i \in 1 .. Len(order) : D[order[i]] \subseteq {order[j] : j \in 1 .. i - 1}
=============================================================================
